---- MODULE Spec2Model ----
(***************************************************************************)
(* DevGotchi (vscode-devgotchi): the DeveloperManager state engine of     *)
(* out/extension.js as a state machine.                                    *)
(*                                                                         *)
(* Numbers.  JavaScript numbers are modelled as exact rationals in fixed   *)
(* point: energy, motivation and focus are held in units of 1/Scale of a   *)
(* point, health in units of 1/HealthScale (a third of a stat unit, so the *)
(* mean of three stats is exact), time in units of 1/UnitsPerHour of an    *)
(* hour.  xp, level, coffee, streaks and quest counters are integers.      *)
(***************************************************************************)
EXTENDS Integers, Sequences, FiniteSets, TLC

VARIABLES developer, lastErrorCount, globalState, now, ret, prev, calls,
          host, snapshot

vars == <<developer, lastErrorCount, globalState, now, ret, prev, calls,
          host, snapshot>>

\* what surrounds the manager: the extension host and a caller's copy
env == <<host, snapshot>>

(***************************************************************************)
(* Units                                                                   *)
(***************************************************************************)
Scale == 200
HealthScale == 3 * Scale
UnitsPerHour == 20
Full == 100 * Scale
oneDay == 24 * UnitsPerHour
twoDays == 48 * UnitsPerHour

Min(a, b) == IF a < b THEN a ELSE b
Max(a, b) == IF a > b THEN a ELSE b

(***************************************************************************)
(* Exact arithmetic on products that do not fit a machine integer: a       *)
(* natural number is a little-endian sequence of limbs below LimbBase.     *)
(***************************************************************************)
LimbBase == 10000

RECURSIVE BigOf(_)
BigOf(n) == IF n < LimbBase THEN <<n>>
            ELSE <<n % LimbBase>> \o BigOf(n \div LimbBase)

RECURSIVE BigMulC(_, _, _)
BigMulC(x, c, carry) ==
    IF x = <<>> THEN (IF carry = 0 THEN <<>> ELSE BigOf(carry))
    ELSE LET t == Head(x) * c + carry
         IN  <<t % LimbBase>> \o BigMulC(Tail(x), c, t \div LimbBase)

BigMul(x, c) == BigMulC(x, c, 0)

RECURSIVE BigDivR(_, _, _)
BigDivR(x, d, rem) ==
    IF x = <<>> THEN <<>>
    ELSE LET n == Len(x)
             cur == rem * LimbBase + x[n]
         IN  BigDivR(SubSeq(x, 1, n - 1), d, cur % d) \o <<cur \div d>>

BigDiv(x, d) == BigDivR(x, d, 0)

RECURSIVE BigToInt(_)
BigToInt(x) == IF x = <<>> THEN 0 ELSE Head(x) + LimbBase * BigToInt(Tail(x))

(***************************************************************************)
(* Static catalogs                                                         *)
(***************************************************************************)
SKILLS == <<
    [id |-> "caffeine_tolerance", cost |-> 50],
    [id |-> "iron_focus", cost |-> 75],
    [id |-> "bug_slayer", cost |-> 100] >>

SHOP_ITEMS == <<
    [id |-> "skin_suit", type |-> "skin", cost |-> 150, emoji |-> "emoji_suit"],
    [id |-> "skin_space", type |-> "skin", cost |-> 300, emoji |-> "emoji_space"],
    [id |-> "furn_chair", type |-> "furniture", cost |-> 200, emoji |-> ""],
    [id |-> "acc_keyboard", type |-> "accessory", cost |-> 250, emoji |-> ""] >>

templates == <<
    [type |-> "save", desc |-> "Save Master", target |-> 30, reward |-> 15],
    [type |-> "save", desc |-> "Typing Machine", target |-> 50, reward |-> 25],
    [type |-> "commit", desc |-> "Committer", target |-> 2, reward |-> 30],
    [type |-> "commit", desc |-> "Ship It", target |-> 5, reward |-> 60],
    [type |-> "fix", desc |-> "Bug Zapper", target |-> 3, reward |-> 20],
    [type |-> "fix", desc |-> "Quality Control", target |-> 10, reward |-> 50],
    [type |-> "time", desc |-> "Deep Work", target |-> 30, reward |-> 20],
    [type |-> "time", desc |-> "Marathon", target |-> 60, reward |-> 45] >>

DefaultRole == "emoji_dev"

Includes(seq, x) == \E i \in 1..Len(seq) : seq[i] = x

\* Array.prototype.find on a catalog: the sequence of matches, first one first.
Find(catalog, id) == SelectSeq(catalog, LAMBDA e : e.id = id)

(***************************************************************************)
(* JavaScript objects: a record whose field may be absent (undefined).     *)
(***************************************************************************)
Has(d, f) == f \in DOMAIN d
GetOr(d, f, dflt) == IF Has(d, f) THEN d[f] ELSE dflt
Put(d, f, v) == [x \in (DOMAIN d) \cup {f} |-> IF x = f THEN v ELSE d[x]]

(***************************************************************************)
(* The manager: m = [developer, lastErrorCount, globalState].              *)
(* globalState is the blob last written under the key 'developer'.         *)
(* prev is the developer record as it was when the last handler was        *)
(* called, calls the number of handler calls since activation.             *)
(***************************************************************************)
\* mutant: the write to the global state is lost
saveDeveloperLost(m) == m

saveDeveloper(m) == [m EXCEPT !.globalState = m.developer]

HourOf(t) == (t \div UnitsPerHour) % 24

\* mutant: the coffee rule is tried before the stat rules
calculateMoodCoffeeFirst(d, hour) ==
    IF hour >= 22 \/ hour < 6 THEN "sleeping"
    ELSE IF d.coffee > 80 THEN "caffeinated"
    ELSE IF d.health < 30 * HealthScale THEN "burnt-out"
    ELSE IF d.energy < 30 * Scale THEN "tired"
    ELSE IF d.focus < 30 * Scale THEN "stressed"
    ELSE IF d.motivation > 70 * Scale THEN "productive"
    ELSE "neutral"

calculateMood(d, hour) ==
    IF hour >= 22 \/ hour < 6 THEN "sleeping"
    ELSE IF d.health < 30 * HealthScale THEN "burnt-out"
    ELSE IF d.energy < 30 * Scale THEN "tired"
    ELSE IF d.focus < 30 * Scale THEN "stressed"
    ELSE IF d.coffee > 80 THEN "caffeinated"
    ELSE IF d.motivation > 70 * Scale THEN "productive"
    ELSE "neutral"

\* mutant: the focus factor is left out of the product
MomentumNoFocus(d, num, den) ==
    LET p == BigMul(BigMul(BigOf(num), Full + d.energy), Full + d.motivation)
    IN  BigToInt(BigDiv(BigDiv(BigDiv(p, Full), Full), den))

\* floor(num/den * (1 + energy/100) * (1 + focus/100) * (1 + motivation/100))
Momentum(d, num, den) ==
    LET p == BigMul(BigMul(BigMul(BigOf(num), Full + d.energy),
                           Full + d.focus), Full + d.motivation)
    IN  BigToInt(BigDiv(BigDiv(BigDiv(BigDiv(p, Full), Full), Full), den))

\* mutant: a single level-up per grant (if instead of while)
LevelOnce(d) ==
    IF d.xp >= d.level * 100
    THEN [d EXCEPT !.level = @ + 1, !.xp = @ - d.level * 100]
    ELSE d

\* mutant: the level stops rising at 5
RECURSIVE LevelLoopCapped(_)
LevelLoopCapped(d) ==
    IF d.xp >= d.level * 100 /\ d.level < 5
    THEN LevelLoopCapped([d EXCEPT !.level = @ + 1, !.xp = @ - d.level * 100])
    ELSE d

\* mutant: every level-up costs a flat 100 xp
RECURSIVE LevelLoopFlat(_)
LevelLoopFlat(d) ==
    IF d.xp >= d.level * 100
    THEN LevelLoopFlat([d EXCEPT !.level = @ + 1, !.xp = @ - 100])
    ELSE d

RECURSIVE LevelLoop(_)
LevelLoop(d) ==
    IF d.xp >= d.level * 100
    THEN LevelLoop([d EXCEPT !.level = @ + 1, !.xp = @ - d.level * 100])
    ELSE d

\* addXP(amount) with amount = num/den
addXP(m, num, den) ==
    LET d == m.developer
    IN  [m EXCEPT !.developer =
            LevelLoop([d EXCEPT !.xp = @ + Momentum(d, num, den)])]

(***************************************************************************)
(* Quests                                                                  *)
(***************************************************************************)
\* mutant: a completed quest keeps the progress it overshot to
QuestStepOvershoot(q, type, amount) ==
    IF q.type = type /\ ~q.completed
    THEN IF q.progress + amount >= q.target
         THEN [q EXCEPT !.progress = @ + amount, !.completed = TRUE]
         ELSE [q EXCEPT !.progress = @ + amount]
    ELSE q

QuestStep(q, type, amount) ==
    IF q.type = type /\ ~q.completed
    THEN IF q.progress + amount >= q.target
         THEN [q EXCEPT !.progress = q.target, !.completed = TRUE]
         ELSE [q EXCEPT !.progress = @ + amount]
    ELSE q

\* mutant: every completed quest of the list is paid, on every call
RECURSIVE SumRewardsRepeat(_, _, _)
SumRewardsRepeat(old, new, i) ==
    IF i > Len(old) THEN 0
    ELSE (IF new[i].completed THEN new[i].reward ELSE 0)
         + SumRewardsRepeat(old, new, i + 1)

RECURSIVE SumRewards(_, _, _)
SumRewards(old, new, i) ==
    IF i > Len(old) THEN 0
    ELSE (IF new[i].completed /\ ~old[i].completed THEN new[i].reward ELSE 0)
         + SumRewards(old, new, i + 1)

\* mutant: the bonus is computed before questStreak is incremented
AllBonusStale(d) ==
    IF ~GetOr(d, "dailyQuestsCompleted", FALSE) /\ Len(d.quests) > 0
       /\ \A i \in 1..Len(d.quests) : d.quests[i].completed
    THEN LET qs == GetOr(d, "questStreak", 0)
             d1 == Put(Put(d, "dailyQuestsCompleted", TRUE), "questStreak", qs + 1)
         IN  [d1 EXCEPT !.coffee = @ + 50 + qs * 10]
    ELSE d

AllBonus(d) ==
    IF ~GetOr(d, "dailyQuestsCompleted", FALSE) /\ Len(d.quests) > 0
       /\ \A i \in 1..Len(d.quests) : d.quests[i].completed
    THEN LET qs == GetOr(d, "questStreak", 0) + 1
             d1 == Put(Put(d, "dailyQuestsCompleted", TRUE), "questStreak", qs)
         IN  [d1 EXCEPT !.coffee = @ + 50 + qs * 10]
    ELSE d

updateQuestProgress(m, type, amount) ==
    LET d == m.developer
        qs == [i \in 1..Len(d.quests) |-> QuestStep(d.quests[i], type, amount)]
        touched == \E i \in 1..Len(d.quests) :
                      d.quests[i].type = type /\ ~d.quests[i].completed
        d1 == [d EXCEPT !.quests = qs,
                        !.coffee = @ + SumRewards(d.quests, qs, 1)]
        d2 == AllBonus(d1)
        updated == touched \/ d2 # d1
        m2 == [m EXCEPT !.developer = d2]
    IN  IF updated THEN saveDeveloper(m2) ELSE m2

NewQuest(t, pick, i) ==
    [id |-> <<t, i - 1>>, description |-> templates[pick[i]].desc,
     type |-> templates[pick[i]].type, target |-> templates[pick[i]].target,
     progress |-> 0, reward |-> templates[pick[i]].reward, completed |-> FALSE]

\* mutant: a broken login streak does not reset the quest streak
generateDailyQuestsKeepsStreak(m, t, pick) ==
    LET d == m.developer
        d1 == IF ~GetOr(d, "dailyQuestsCompleted", FALSE)
              THEN Put(d, "questStreak", 0) ELSE d
        d2 == Put(d1, "dailyQuestsCompleted", FALSE)
        d3 == [d2 EXCEPT !.quests = [i \in 1..3 |-> NewQuest(t, pick, i)]]
    IN  saveDeveloper([m EXCEPT !.developer = d3])

\* pick: the order of the template indices after the shuffle (a permutation of
\* 1..8, whatever the comparator answers); slice(0, 3) keeps the first three
generateDailyQuests(m, t, pick) ==
    LET d == m.developer
        d1 == IF d.streak = 1 \/ ~GetOr(d, "dailyQuestsCompleted", FALSE)
              THEN Put(d, "questStreak", 0) ELSE d
        d2 == Put(d1, "dailyQuestsCompleted", FALSE)
        d3 == [d2 EXCEPT !.quests = [i \in 1..3 |-> NewQuest(t, pick, i)]]
    IN  saveDeveloper([m EXCEPT !.developer = d3])

\* mutant: a gap of exactly 48 hours still counts as consecutive
checkDailyBonusLateStreak(m, t, pick) ==
    LET d == m.developer
        lastBonus == d.lastDailyBonus
    IN  IF t - lastBonus >= oneDay
        THEN LET streak == IF lastBonus > 0 /\ t - lastBonus <= twoDays
                           THEN d.streak + 1 ELSE 1
                 bonus == 20 + streak * 5
                 d1 == [d EXCEPT !.streak = streak, !.coffee = @ + bonus,
                                 !.lastDailyBonus = t]
             IN  generateDailyQuests([m EXCEPT !.developer = d1], t, pick)
        ELSE m

\* mutant: the bonus is computed from the streak as it was before the update
checkDailyBonusOldStreak(m, t, pick) ==
    LET d == m.developer
        lastBonus == d.lastDailyBonus
    IN  IF t - lastBonus >= oneDay
        THEN LET streak == IF lastBonus > 0 /\ t - lastBonus < twoDays
                           THEN d.streak + 1 ELSE 1
                 bonus == 20 + d.streak * 5
                 d1 == [d EXCEPT !.streak = streak, !.coffee = @ + bonus,
                                 !.lastDailyBonus = t]
             IN  generateDailyQuests([m EXCEPT !.developer = d1], t, pick)
        ELSE m

\* mutant: the bonus needs more than 24 hours
checkDailyBonusStrict(m, t, pick) ==
    LET d == m.developer
        lastBonus == d.lastDailyBonus
    IN  IF t - lastBonus > oneDay
        THEN LET streak == IF lastBonus > 0 /\ t - lastBonus < twoDays
                           THEN d.streak + 1 ELSE 1
                 bonus == 20 + streak * 5
                 d1 == [d EXCEPT !.streak = streak, !.coffee = @ + bonus,
                                 !.lastDailyBonus = t]
             IN  generateDailyQuests([m EXCEPT !.developer = d1], t, pick)
        ELSE m

\* mutant: a broken login streak falls back to 0 instead of 1
checkDailyBonusZero(m, t, pick) ==
    LET d == m.developer
        lastBonus == d.lastDailyBonus
    IN  IF t - lastBonus >= oneDay
        THEN LET streak == IF lastBonus > 0 /\ t - lastBonus < twoDays
                           THEN d.streak + 1 ELSE 0
                 bonus == 20 + streak * 5
                 d1 == [d EXCEPT !.streak = streak, !.coffee = @ + bonus,
                                 !.lastDailyBonus = t]
             IN  generateDailyQuests([m EXCEPT !.developer = d1], t, pick)
        ELSE m

checkDailyBonus(m, t, pick) ==
    LET d == m.developer
        lastBonus == d.lastDailyBonus
    IN  IF t - lastBonus >= oneDay
        THEN LET streak == IF lastBonus > 0 /\ t - lastBonus < twoDays
                           THEN d.streak + 1 ELSE 1
                 bonus == 20 + streak * 5
                 d1 == [d EXCEPT !.streak = streak, !.coffee = @ + bonus,
                                 !.lastDailyBonus = t]
             IN  generateDailyQuests([m EXCEPT !.developer = d1], t, pick)
        ELSE m

(***************************************************************************)
(* updateStats: the tick                                                   *)
(***************************************************************************)
\* mutant: the loss of a tick is rounded down to whole points
DecayWhole(dt, rate100) == ((dt * rate100) \div (UnitsPerHour * 100)) * Scale

\* a decay of rate100/100 points per hour over dt time units, in stat units
Decay(dt, rate100) == (dt * rate100 * Scale) \div (UnitsPerHour * 100)

\* mutant: the chair does not slow the energy decay
energyDecayNoChair(d) == 400

energyDecay(d) == IF Includes(d.inventory, "furn_chair") THEN (400 * 85) \div 100 ELSE 400
motivationDecay(d) == IF Includes(d.inventory, "acc_keyboard") THEN (200 * 85) \div 100 ELSE 200
focusDecay(d) == IF Includes(d.skills, "iron_focus") THEN 210 ELSE 300

\* lastErrorCount * 0.05 points, in stat units
stressFactor(n) == (n * 5 * Scale) \div 100

\* mutant: the decay is not floored at 0
TimeDecayUnclamped(d, dt) ==
    [d EXCEPT !.energy = @ - Decay(dt, energyDecay(d)),
              !.motivation = @ - Decay(dt, motivationDecay(d)),
              !.focus = @ - Decay(dt, focusDecay(d))]

TimeDecay(d, dt) ==
    [d EXCEPT !.energy = Max(0, @ - Decay(dt, energyDecay(d))),
              !.motivation = Max(0, @ - Decay(dt, motivationDecay(d))),
              !.focus = Max(0, @ - Decay(dt, focusDecay(d)))]

\* mutant: linter stress drains focus as well
LinterStressAll(d, n) ==
    IF n > 0
    THEN [d EXCEPT !.energy = Max(0, @ - stressFactor(n)),
                   !.motivation = Max(0, @ - stressFactor(n)),
                   !.focus = Max(0, @ - stressFactor(n))]
    ELSE d

LinterStress(d, n) ==
    IF n > 0
    THEN [d EXCEPT !.energy = Max(0, @ - stressFactor(n)),
                   !.motivation = Max(0, @ - stressFactor(n))]
    ELSE d

\* mutant: every gap counts as active time
IsActiveAlways(dt) == dt >= 0

\* hoursPassed < 0.083, in thousandths of an hour
IsActive(dt) == dt * (1000 \div UnitsPerHour) < 83

\* hoursPassed * 60 minutes
Minutes(dt) == (dt * 60) \div UnitsPerHour

\* mutant: the tick does not stamp lastUpdated
DeriveNoStamp(d, t) ==
    LET d1 == [d EXCEPT !.health = d.energy + d.motivation + d.focus]
    IN  [d1 EXCEPT !.mood = calculateMood(d1, HourOf(t))]

Derive(d, t) ==
    LET d1 == [d EXCEPT !.health = d.energy + d.motivation + d.focus]
        d2 == [d1 EXCEPT !.mood = calculateMood(d1, HourOf(t))]
    IN  [d2 EXCEPT !.lastUpdated = t]

\* mutant: the daily bonus check runs before the active time is reported
updateStatsBonusFirst(m, t, pick) ==
    LET dt == t - m.developer.lastUpdated
        m1 == [m EXCEPT !.developer =
                  LinterStress(TimeDecay(m.developer, dt), m.lastErrorCount)]
        m2 == checkDailyBonus(m1, t, pick)
        m3 == IF IsActive(dt) THEN updateQuestProgress(m2, "time", Minutes(dt))
              ELSE m2
    IN  saveDeveloper([m3 EXCEPT !.developer = Derive(m3.developer, t)])

updateStats(m, t, pick) ==
    LET dt == t - m.developer.lastUpdated
        m1 == [m EXCEPT !.developer =
                  LinterStress(TimeDecay(m.developer, dt), m.lastErrorCount)]
        m2 == IF IsActive(dt) THEN updateQuestProgress(m1, "time", Minutes(dt))
              ELSE m1
        m3 == checkDailyBonus(m2, t, pick)
    IN  saveDeveloper([m3 EXCEPT !.developer = Derive(m3.developer, t)])

(***************************************************************************)
(* Loading and defaults                                                    *)
(***************************************************************************)
DefaultDeveloper(t) ==
    [energy |-> Full, motivation |-> Full, focus |-> Full,
     health |-> 100 * HealthScale, xp |-> 0, level |-> 1, lastUpdated |-> t,
     mood |-> "productive", role |-> DefaultRole, name |-> "Dev", coffee |-> 50,
     skills |-> <<>>, inventory |-> <<>>, lastDailyBonus |-> 0, streak |-> 0,
     quests |-> <<>>, questStreak |-> 0, dailyQuestsCompleted |-> FALSE,
     tutorialCompleted |-> FALSE]

\* the object literal of resetProgress
ResetDeveloper(t) ==
    [energy |-> Full, motivation |-> Full, focus |-> Full,
     health |-> 100 * HealthScale, xp |-> 0, level |-> 1, lastUpdated |-> t,
     mood |-> "productive", role |-> DefaultRole, name |-> "Dev", coffee |-> 50,
     skills |-> <<>>, inventory |-> <<>>, lastDailyBonus |-> 0, streak |-> 0,
     quests |-> <<>>]

Backfill(d, f, dflt) == IF Has(d, f) THEN d ELSE Put(d, f, dflt)

\* mutant: tutorialCompleted is not backfilled
loadDeveloperNoTutorial(stored, t) ==
    IF stored # <<>>
    THEN Backfill(Backfill(Backfill(Backfill(Backfill(Backfill(Backfill(
             stored[1], "inventory", <<>>), "lastDailyBonus", 0), "streak", 0),
             "skills", <<>>), "quests", <<>>), "questStreak", 0),
             "dailyQuestsCompleted", FALSE)
    ELSE DefaultDeveloper(t)

\* stored: <<>> when the key is missing, <<blob>> otherwise
loadDeveloper(stored, t) ==
    IF stored # <<>>
    THEN Backfill(Backfill(Backfill(Backfill(Backfill(Backfill(Backfill(Backfill(
             stored[1], "inventory", <<>>), "lastDailyBonus", 0), "streak", 0),
             "skills", <<>>), "quests", <<>>), "questStreak", 0),
             "dailyQuestsCompleted", FALSE), "tutorialCompleted", FALSE)
    ELSE DefaultDeveloper(t)

\* new DeveloperManager(context), then setInitialErrorCount(count)
\* mutant: the constructor loads and does not tick
ConstructNoTick(stored, t, pick, count) ==
    LET d == loadDeveloper(stored, t)
    IN  [developer |-> d, lastErrorCount |-> count, globalState |-> d]

Construct(stored, t, pick, count) ==
    LET d == loadDeveloper(stored, t)
        m == updateStats([developer |-> d, lastErrorCount |-> 0,
                          globalState |-> d], t, pick)
    IN  [m EXCEPT !.lastErrorCount = count]

(***************************************************************************)
(* Handlers: each yields [m |-> the manager afterwards, ret |-> its result] *)
(***************************************************************************)
\* ret: the handler called last, its argument and what it returned
Result(op, arg, success) ==
    [op |-> op, arg |-> arg, success |-> success, value |-> 0]
Void(op, arg) == [op |-> op, arg |-> arg, success |-> TRUE, value |-> 0]

\* mutant: the beans are taken before the balance is checked
giveCoffeeChargeFirst(m) ==
    LET d == m.developer
        m0 == [m EXCEPT !.developer.coffee = @ - 10]
    IN  IF d.coffee < 10 THEN [m |-> m0, ret |-> Result("giveCoffee", "", FALSE)]
        ELSE [m |-> saveDeveloper(addXP(m0, 5, 1)),
              ret |-> Result("giveCoffee", "", TRUE)]

\* mutant: caffeine_tolerance does not raise the energy boost
giveCoffeeFlatBoost(m) ==
    LET d == m.developer
    IN  IF d.coffee < 10 THEN [m |-> m, ret |-> Result("giveCoffee", "", FALSE)]
        ELSE LET d1 == [d EXCEPT !.coffee = @ - 10,
                                 !.energy = Min(Full, @ + 35 * Scale),
                                 !.focus = Min(Full, @ + 20 * Scale),
                                 !.motivation = Min(Full, @ + 10 * Scale)]
             IN  [m |-> saveDeveloper(addXP([m EXCEPT !.developer = d1], 5, 1)),
                  ret |-> Result("giveCoffee", "", TRUE)]

giveCoffee(m) ==
    LET d == m.developer
    IN  IF d.coffee < 10 THEN [m |-> m, ret |-> Result("giveCoffee", "", FALSE)]
        ELSE LET energyBoost == IF Includes(d.skills, "caffeine_tolerance")
                                THEN 52 ELSE 35
                 d1 == [d EXCEPT !.coffee = @ - 10,
                                 !.energy = Min(Full, @ + energyBoost * Scale),
                                 !.focus = Min(Full, @ + 20 * Scale),
                                 !.motivation = Min(Full, @ + 10 * Scale)]
             IN  [m |-> saveDeveloper(addXP([m EXCEPT !.developer = d1], 5, 1)),
                  ret |-> Result("giveCoffee", "", TRUE)]

\* floor(max(5, 5*(100-energy)/40, 5*(100-motivation)/15))
BreakXP(d) ==
    Max(5, Max((5 * (Full - d.energy)) \div (40 * Scale),
               (5 * (Full - d.motivation)) \div (15 * Scale)))

\* mutant: the XP is granted after the stats are restored
takeBreakGrantAfter(m) ==
    LET d == m.developer
    IN  IF d.energy = Full /\ d.motivation = Full
        THEN [m |-> m, ret |-> Result("takeBreak", "", FALSE)]
        ELSE LET d1 == [d EXCEPT !.energy = Min(Full, @ + 40 * Scale),
                                 !.motivation = Min(Full, @ + 15 * Scale),
                                 !.focus = Max(0, @ - 5 * Scale)]
                 m1 == addXP([m EXCEPT !.developer = d1], BreakXP(d1), 1)
             IN  [m |-> saveDeveloper(m1), ret |-> Result("takeBreak", "", TRUE)]

takeBreak(m) ==
    LET d == m.developer
    IN  IF d.energy = Full /\ d.motivation = Full
        THEN [m |-> m, ret |-> Result("takeBreak", "", FALSE)]
        ELSE LET m1 == addXP(m, BreakXP(d), 1)
                 d1 == [m1.developer EXCEPT
                           !.energy = Min(Full, @ + 40 * Scale),
                           !.motivation = Min(Full, @ + 15 * Scale),
                           !.focus = Max(0, @ - 5 * Scale)]
             IN  [m |-> saveDeveloper([m1 EXCEPT !.developer = d1]),
                  ret |-> Result("takeBreak", "", TRUE)]

onCodeSaved(m) ==
    LET d1 == [m.developer EXCEPT !.motivation = Min(Full, @ + 3 * Scale),
                                  !.coffee = @ + 1]
        m1 == addXP([m EXCEPT !.developer = d1], 3, 1)
    IN  [m |-> saveDeveloper(updateQuestProgress(m1, "save", 1)),
         ret |-> Void("onCodeSaved", "")]

onGitCommit(m) ==
    LET d1 == [m.developer EXCEPT !.motivation = Min(Full, @ + 20 * Scale),
                                  !.coffee = @ + 5]
        m1 == addXP([m EXCEPT !.developer = d1], 50, 1)
    IN  [m |-> saveDeveloper(updateQuestProgress(m1, "commit", 1)),
         ret |-> Void("onGitCommit", "")]

\* mutant: bug_slayer does not double the XP of a fix
updateErrorCountNoSlayer(m, currentErrors) ==
    LET diff == currentErrors - m.lastErrorCount
        m1 == IF diff < 0
              THEN LET fixed == -diff
                       a == addXP(m, fixed * 5, 1)
                       b == [a EXCEPT !.developer.motivation =
                                         Min(Full, @ + fixed * Scale)]
                   IN  updateQuestProgress(b, "fix", fixed)
              ELSE IF diff > 0
              THEN [m EXCEPT !.developer.focus = Max(0, @ - (diff * Scale) \div 2)]
              ELSE m
    IN  [m |-> saveDeveloper([m1 EXCEPT !.lastErrorCount = currentErrors]),
         ret |-> Void("updateErrorCount", currentErrors)]

updateErrorCount(m, currentErrors) ==
    LET diff == currentErrors - m.lastErrorCount
        m1 == IF diff < 0
              THEN LET fixed == -diff
                       xpMult == IF Includes(m.developer.skills, "bug_slayer")
                                 THEN 2 ELSE 1
                       a == addXP(m, fixed * 5 * xpMult, 1)
                       b == [a EXCEPT !.developer.motivation =
                                         Min(Full, @ + fixed * Scale)]
                   IN  updateQuestProgress(b, "fix", fixed)
              ELSE IF diff > 0
              THEN [m EXCEPT !.developer.focus = Max(0, @ - (diff * Scale) \div 2)]
              ELSE m
    IN  [m |-> saveDeveloper([m1 EXCEPT !.lastErrorCount = currentErrors]),
         ret |-> Void("updateErrorCount", currentErrors)]

completeTutorial(m) ==
    [m |-> saveDeveloper([m EXCEPT !.developer =
                             Put(m.developer, "tutorialCompleted", TRUE)]),
     ret |-> Void("completeTutorial", "")]

\* mutant: a skill already unlocked can be bought again
unlockSkillAgain(m, skillId) ==
    LET found == Find(SKILLS, skillId)
        d == m.developer
    IN  IF found = <<>> THEN [m |-> m, ret |-> Result("unlockSkill", skillId, FALSE)]
        ELSE IF d.coffee < found[1].cost
        THEN [m |-> m, ret |-> Result("unlockSkill", skillId, FALSE)]
        ELSE [m |-> saveDeveloper([m EXCEPT !.developer =
                        [d EXCEPT !.coffee = @ - found[1].cost,
                                  !.skills = Append(@, skillId)]]),
              ret |-> Result("unlockSkill", skillId, TRUE)]

\* mutant: the balance is not checked
unlockSkillOnCredit(m, skillId) ==
    LET found == Find(SKILLS, skillId)
        d == m.developer
    IN  IF found = <<>> THEN [m |-> m, ret |-> Result("unlockSkill", skillId, FALSE)]
        ELSE IF Includes(d.skills, skillId)
        THEN [m |-> m, ret |-> Result("unlockSkill", skillId, FALSE)]
        ELSE [m |-> saveDeveloper([m EXCEPT !.developer =
                        [d EXCEPT !.coffee = @ - found[1].cost,
                                  !.skills = Append(@, skillId)]]),
              ret |-> Result("unlockSkill", skillId, TRUE)]

unlockSkill(m, skillId) ==
    LET found == Find(SKILLS, skillId)
        d == m.developer
    IN  IF found = <<>> THEN [m |-> m, ret |-> Result("unlockSkill", skillId, FALSE)]
        ELSE IF Includes(d.skills, skillId)
        THEN [m |-> m, ret |-> Result("unlockSkill", skillId, FALSE)]
        ELSE IF d.coffee < found[1].cost
        THEN [m |-> m, ret |-> Result("unlockSkill", skillId, FALSE)]
        ELSE [m |-> saveDeveloper([m EXCEPT !.developer =
                        [d EXCEPT !.coffee = @ - found[1].cost,
                                  !.skills = Append(@, skillId)]]),
              ret |-> Result("unlockSkill", skillId, TRUE)]

\* mutant: every purchase changes the role, skin or not
buyItemAlwaysEquips(m, itemId) ==
    LET found == Find(SHOP_ITEMS, itemId)
        d == m.developer
    IN  IF found = <<>> THEN [m |-> m, ret |-> Result("buyItem", itemId, FALSE)]
        ELSE IF Includes(d.inventory, itemId)
        THEN [m |-> m, ret |-> Result("buyItem", itemId, FALSE)]
        ELSE IF d.coffee < found[1].cost
        THEN [m |-> m, ret |-> Result("buyItem", itemId, FALSE)]
        ELSE LET d1 == [d EXCEPT !.coffee = @ - found[1].cost,
                                 !.inventory = Append(@, itemId),
                                 !.role = found[1].emoji]
             IN  [m |-> saveDeveloper([m EXCEPT !.developer = d1]),
                  ret |-> Result("buyItem", itemId, TRUE)]

\* mutant: the inventory is overwritten instead of appended to
buyItemOverwrite(m, itemId) ==
    LET found == Find(SHOP_ITEMS, itemId)
        d == m.developer
    IN  IF found = <<>> THEN [m |-> m, ret |-> Result("buyItem", itemId, FALSE)]
        ELSE IF Includes(d.inventory, itemId)
        THEN [m |-> m, ret |-> Result("buyItem", itemId, FALSE)]
        ELSE IF d.coffee < found[1].cost
        THEN [m |-> m, ret |-> Result("buyItem", itemId, FALSE)]
        ELSE LET d1 == [d EXCEPT !.coffee = @ - found[1].cost,
                                 !.inventory = <<itemId>>]
                 d2 == IF found[1].type = "skin" /\ found[1].emoji # ""
                       THEN [d1 EXCEPT !.role = found[1].emoji] ELSE d1
             IN  [m |-> saveDeveloper([m EXCEPT !.developer = d2]),
                  ret |-> Result("buyItem", itemId, TRUE)]

buyItem(m, itemId) ==
    LET found == Find(SHOP_ITEMS, itemId)
        d == m.developer
    IN  IF found = <<>> THEN [m |-> m, ret |-> Result("buyItem", itemId, FALSE)]
        ELSE IF Includes(d.inventory, itemId)
        THEN [m |-> m, ret |-> Result("buyItem", itemId, FALSE)]
        ELSE IF d.coffee < found[1].cost
        THEN [m |-> m, ret |-> Result("buyItem", itemId, FALSE)]
        ELSE LET d1 == [d EXCEPT !.coffee = @ - found[1].cost,
                                 !.inventory = Append(@, itemId)]
                 d2 == IF found[1].type = "skin" /\ found[1].emoji # ""
                       THEN [d1 EXCEPT !.role = found[1].emoji] ELSE d1
             IN  [m |-> saveDeveloper([m EXCEPT !.developer = d2]),
                  ret |-> Result("buyItem", itemId, TRUE)]

\* mutant: equipping does not ask whether the item is owned
equipItemUnowned(m, itemId) ==
    LET found == Find(SHOP_ITEMS, itemId)
    IN  IF found = <<>>
        THEN [m |-> m, ret |-> Result("equipItem", itemId, FALSE)]
        ELSE IF found[1].type # "skin" \/ found[1].emoji = ""
        THEN [m |-> m, ret |-> Result("equipItem", itemId, FALSE)]
        ELSE [m |-> saveDeveloper([m EXCEPT !.developer.role = found[1].emoji]),
              ret |-> Result("equipItem", itemId, TRUE)]

equipItem(m, itemId) ==
    LET found == Find(SHOP_ITEMS, itemId)
        d == m.developer
    IN  IF found = <<>> \/ ~Includes(d.inventory, itemId)
        THEN [m |-> m, ret |-> Result("equipItem", itemId, FALSE)]
        ELSE IF found[1].type # "skin" \/ found[1].emoji = ""
        THEN [m |-> m, ret |-> Result("equipItem", itemId, FALSE)]
        ELSE [m |-> saveDeveloper([m EXCEPT !.developer.role = found[1].emoji]),
              ret |-> Result("equipItem", itemId, TRUE)]

\* mutant: the cubic term is left out of the reward curve
ChallengeXPNoCube(score) == score * 100000 + score * score * 1000

\* score + score^2/100 + score^3/100000, as a numerator over 100000
ChallengeXP(score) == score * 100000 + score * score * 1000 + score * score * score

challengeCompleted(m, score) ==
    LET coffeeEarned == score \div 10
        d1 == [m.developer EXCEPT !.coffee = @ + coffeeEarned,
                                  !.motivation = Min(Full, @ + 20 * Scale)]
    IN  [m |-> saveDeveloper(addXP([m EXCEPT !.developer = d1],
                                   ChallengeXP(score), 100000)),
         ret |-> [op |-> "challengeCompleted", arg |-> score, success |-> TRUE,
                  value |-> coffeeEarned]]

renameDeveloper(m, newName) ==
    [m |-> saveDeveloper([m EXCEPT !.developer.name = newName]),
     ret |-> Result("renameDeveloper", newName, TRUE)]

resetProgress(m, selection, t, pick) ==
    IF selection = "Yes"
    THEN [m |-> updateStats(saveDeveloper([m EXCEPT !.developer = ResetDeveloper(t)]),
                            t, pick),
          ret |-> Void("resetProgress", selection)]
    ELSE [m |-> m, ret |-> Void("resetProgress", selection)]

(***************************************************************************)
(* Inputs                                                                  *)
(***************************************************************************)
MaxCalls == 3

\* the session starts at 21:00 local time, some weeks after the epoch
T0 == UnitsPerHour * (24 * 20 + 21)

\* elapsed time between two ticks: none, 3 minutes, 1 hour, 24 hours, 48 hours
Dts == {0, 1, UnitsPerHour, oneDay, twoDays}
ErrorCounts == {0, 3, 10}
Scores == {0, 25, 300}
SkillIds == {SKILLS[i].id : i \in 1..Len(SKILLS)} \cup {"no_such_skill"}
ItemIds == {SHOP_ITEMS[i].id : i \in 1..Len(SHOP_ITEMS)} \cup {"no_such_item"}
Names == {"Ada"}
Selections == {"Yes", "No"}

\* outcomes of the shuffle: orders of the eight template indices
QuestPicks == {<<3, 5, 6, 1, 2, 4, 7, 8>>, <<7, 1, 4, 8, 6, 5, 3, 2>>}

\* a blob saved by an earlier session, one hour before this one starts
Veteran ==
    [energy |-> 45 * Scale, motivation |-> 80 * Scale, focus |-> 31 * Scale,
     health |-> 156 * Scale, xp |-> 40, level |-> 3,
     lastUpdated |-> T0 - UnitsPerHour, mood |-> "productive",
     role |-> "emoji_suit", name |-> "Dev", coffee |-> 320,
     skills |-> <<"caffeine_tolerance">>, inventory |-> <<"skin_suit">>,
     lastDailyBonus |-> T0 - oneDay + 2, streak |-> 2,
     quests |-> <<
        [id |-> <<T0 - oneDay + 2, 0>>, description |-> "Committer",
         type |-> "commit", target |-> 2, progress |-> 2, reward |-> 30,
         completed |-> TRUE],
        [id |-> <<T0 - oneDay + 2, 1>>, description |-> "Bug Zapper",
         type |-> "fix", target |-> 3, progress |-> 0, reward |-> 20,
         completed |-> FALSE],
        [id |-> <<T0 - oneDay + 2, 2>>, description |-> "Deep Work",
         type |-> "time", target |-> 30, progress |-> 28, reward |-> 20,
         completed |-> FALSE] >>,
     questStreak |-> 1, dailyQuestsCompleted |-> FALSE,
     tutorialCompleted |-> TRUE]

\* what activate() finds: the stored blob and the diagnostics' error count
Sessions == {[stored |-> <<>>, errors |-> 0],
             [stored |-> <<Veteran>>, errors |-> 10]}

(***************************************************************************)
(* The extension host: what activate() registers                           *)
(***************************************************************************)
Undefined == "undefined"
Commits == {"c1", "c2"}
Heads == Commits \cup {Undefined}
Repos == {"repoA", "repoB"}
\* git.repositories when activate() runs
OpenAtActivation == {"repoA"}
\* HEAD of every repository when the ordinary session starts
StartHeads == [repo \in Repos |-> "c1"]

\* mutant: the timer's disposable is not pushed to context.subscriptions
SubscriptionsNoTimer ==
    {"statusBarItem", "devgotchi.openPanel", "devgotchi.resetProgress",
     "onDidSaveTextDocument", "onDidChangeDiagnostics"}

\* the disposables pushed to context.subscriptions
Subscriptions ==
    {"statusBarItem", "devgotchi.openPanel", "devgotchi.resetProgress",
     "onDidSaveTextDocument", "interval", "onDidChangeDiagnostics"}

\* everything activate() registers; the git listeners are not pushed to
\* context.subscriptions
Registrations ==
    {"statusBarItem", "devgotchi.openPanel", "devgotchi.resetProgress",
     "onDidSaveTextDocument", "interval", "onDidChangeDiagnostics",
     "git.onDidOpenRepository", "repo.state.onDidChange"}

\* mutant: the hook starts with no recorded HEAD
hookRepoUnset(h, repo) ==
    [h EXCEPT !.hooked = @ \cup {repo}, !.lastHead[repo] = Undefined]

\* let lastHead = repo.state.HEAD?.commit; repo.state.onDidChange(...)
hookRepo(h, repo) ==
    [h EXCEPT !.hooked = @ \cup {repo}, !.lastHead[repo] = h.HEAD[repo]]

RECURSIVE hookAll(_, _)
hookAll(h, repos) ==
    IF repos = {} THEN h
    ELSE LET repo == CHOOSE r \in repos : TRUE
         IN  hookAll(hookRepo(h, repo), repos \ {repo})

activate(heads) ==
    hookAll([active |-> Registrations, subscriptions |-> Subscriptions,
             disposed |-> FALSE, hooked |-> {}, HEAD |-> heads,
             lastHead |-> [repo \in Repos |-> Undefined]],
            OpenAtActivation)

\* the host disposes every entry of context.subscriptions
dispose(h) ==
    [h EXCEPT !.active = @ \ h.subscriptions, !.disposed = TRUE]

\* the listener of repo.state.onDidChange: does this change count as a commit
IsNewHead(h, repo, head) == head # Undefined /\ head # h.lastHead[repo]

onDidChange(h, repo, head) ==
    LET h1 == [h EXCEPT !.HEAD[repo] = head]
    IN  IF IsNewHead(h, repo, head) THEN [h1 EXCEPT !.lastHead[repo] = head]
        ELSE h1

\* getDeveloper: { ...this.developer } copies the record's own fields; the
\* fields holding arrays still refer to the manager's arrays
NoSnapshot == [held |-> FALSE, dev |-> <<>>, shared |-> {}]
getDeveloper(m) ==
    [held |-> TRUE, dev |-> m.developer,
     shared |-> {"skills", "inventory", "quests"}]

(***************************************************************************)
(* The state machine                                                       *)
(***************************************************************************)
M == [developer |-> developer, lastErrorCount |-> lastErrorCount,
      globalState |-> globalState]

Becomes(m) ==
    /\ developer' = m.developer
    /\ lastErrorCount' = m.lastErrorCount
    /\ globalState' = m.globalState

Returns(r) ==
    /\ calls < MaxCalls
    /\ Becomes(r.m)
    /\ ret' = r.ret
    /\ prev' = developer
    /\ calls' = calls + 1

Init ==
    \E s \in Sessions, pick \in QuestPicks :
        LET m == Construct(s.stored, T0, pick, s.errors)
        IN  /\ developer = m.developer
            /\ lastErrorCount = m.lastErrorCount
            /\ globalState = m.globalState
            /\ now = T0
            /\ ret = Void("constructor", "")
            /\ prev = m.developer
            /\ calls = 0
            /\ host = activate(StartHeads)
            /\ snapshot = NoSnapshot

\* the 30-second timer fires, dt after the previous tick
Tick ==
    \E dt \in Dts, pick \in QuestPicks :
        /\ "interval" \in host.active
        /\ now' = now + dt
        /\ Returns([m |-> updateStats(M, now + dt, pick), ret |-> Void("updateStats", dt)])
        /\ UNCHANGED env

GiveCoffee == Returns(giveCoffee(M)) /\ UNCHANGED <<now, env>>
TakeBreak == Returns(takeBreak(M)) /\ UNCHANGED <<now, env>>
OnCodeSaved == Returns(onCodeSaved(M)) /\ UNCHANGED <<now, env>>
OnGitCommit == Returns(onGitCommit(M)) /\ UNCHANGED <<now, env>>
UpdateErrorCount ==
    \E c \in ErrorCounts : Returns(updateErrorCount(M, c)) /\ UNCHANGED <<now, env>>
ChallengeCompleted ==
    \E score \in Scores : Returns(challengeCompleted(M, score)) /\ UNCHANGED <<now, env>>
UnlockSkill == \E id \in SkillIds : Returns(unlockSkill(M, id)) /\ UNCHANGED <<now, env>>
BuyItem == \E id \in ItemIds : Returns(buyItem(M, id)) /\ UNCHANGED <<now, env>>
EquipItem == \E id \in ItemIds : Returns(equipItem(M, id)) /\ UNCHANGED <<now, env>>
RenameDeveloper ==
    \E n \in Names : Returns(renameDeveloper(M, n)) /\ UNCHANGED <<now, env>>
CompleteTutorial == Returns(completeTutorial(M)) /\ UNCHANGED <<now, env>>
ResetProgress ==
    \E sel \in Selections, pick \in QuestPicks :
        Returns(resetProgress(M, sel, now, pick)) /\ UNCHANGED <<now, env>>

Next ==
    \/ Tick
    \/ GiveCoffee
    \/ TakeBreak
    \/ OnCodeSaved
    \/ OnGitCommit
    \/ UpdateErrorCount
    \/ ChallengeCompleted
    \/ UnlockSkill
    \/ BuyItem
    \/ EquipItem
    \/ RenameDeveloper
    \/ CompleteTutorial
    \/ ResetProgress

Spec == Init /\ [][Next]_vars

(***************************************************************************)
(* Properties                                                              *)
(***************************************************************************)
Called == calls > 0
ConfirmedReset == ret.op = "resetProgress" /\ ret.arg = "Yes"
BonusFired == ret.op = "updateStats" /\ developer.lastDailyBonus # prev.lastDailyBonus
Elems(seq) == {seq[i] : i \in 1..Len(seq)}

\* C1: in every reachable state energy, motivation, focus and health lie in
\* [0,100].
C1_StatsInRange ==
    /\ developer.energy \in 0..Full
    /\ developer.motivation \in 0..Full
    /\ developer.focus \in 0..Full
    /\ developer.health \in 0..(100 * HealthScale)

\* a tick over a gap long enough for the unfloored decay to pass below 0
C1_Witness ==
    /\ ret.op = "updateStats"
    /\ developer.energy = 0
    /\ prev.energy > 0
    /\ prev.energy < Decay(ret.arg, energyDecay(prev))

\* C2: after every state-affecting operation health equals
\* (energy + motivation + focus) / 3.
C2_HealthIsMean ==
    developer.health = developer.energy + developer.motivation + developer.focus

\* C3: after every handler the stored mood is the classification of the
\* current stats, coffee and local hour.
C3_MoodIsCurrent == developer.mood = calculateMood(developer, HourOf(now))

\* C4: after every operation that grants XP, 0 <= xp < level*100 and
\* level >= 1.
C4_XpNormalized ==
    /\ developer.level >= 1
    /\ developer.xp >= 0
    /\ developer.xp < developer.level * 100

\* one grant that crossed several level thresholds
C4_Witness ==
    /\ ret.op = "challengeCompleted"
    /\ developer.level > prev.level + 2

\* C5: a tick with zero elapsed time, whatever the error count, leaves
\* energy, motivation, focus and health as they were.
C5_TickIdempotent ==
    (ret.op = "updateStats" /\ ret.arg = 0 /\ prev.lastUpdated = now) =>
        /\ developer.energy = prev.energy
        /\ developer.motivation = prev.motivation
        /\ developer.focus = prev.focus
        /\ developer.health = prev.health

\* C6 as stated: without a confirmed reset neither streak nor questStreak is
\* ever lowered.
C6_StreaksNeverDecrease ==
    (Called /\ ~ConfirmedReset) =>
        /\ developer.streak >= prev.streak
        /\ developer.questStreak >= prev.questStreak

\* C6 amended: without a confirmed reset, streak and questStreak are lowered
\* only by a tick that fires the daily bonus, which lowers streak only to 1
\* and questStreak only to 0.
C6_StreaksLoweredOnlyByBonus ==
    (Called /\ ~ConfirmedReset) =>
        IF BonusFired
        THEN /\ developer.streak >= prev.streak \/ developer.streak = 1
             /\ developer.questStreak >= prev.questStreak
                \/ developer.questStreak = 0
        ELSE /\ developer.streak >= prev.streak
             /\ developer.questStreak >= prev.questStreak

\* a bonus-firing tick that lowered both streaks
C6_Witness ==
    /\ BonusFired
    /\ developer.streak < prev.streak
    /\ developer.questStreak < prev.questStreak

\* C7: without a confirmed reset every skill and every inventory item held
\* before an operation is still held after it.
C7_CollectionsGrow ==
    (Called /\ ~ConfirmedReset) =>
        /\ Elems(prev.skills) \subseteq Elems(developer.skills)
        /\ Elems(prev.inventory) \subseteq Elems(developer.inventory)

\* a purchase made while an item and two skills were already held
C7_Witness ==
    /\ ret.op = "buyItem" /\ ret.success
    /\ Len(prev.inventory) >= 1
    /\ Len(developer.skills) >= 2

\* C8: without a confirmed reset level never decreases, and from every level
\* a large enough grant reaches a higher one.
C8_LevelGrowsUnbounded ==
    /\ (Called /\ ~ConfirmedReset) => developer.level >= prev.level
    /\ addXP(M, developer.level * 100, 1).developer.level > developer.level

\* a level-up by several levels at once
C8_Witness ==
    /\ ret.op = "challengeCompleted"
    /\ developer.level >= prev.level + 5

\* C9 as stated: coffee >= 0, and only giveCoffee, unlockSkill and buyItem
\* lower it.
C9_OnlyPurchasesLowerCoffee ==
    /\ developer.coffee >= 0
    /\ (Called /\ ret.op \notin {"giveCoffee", "unlockSkill", "buyItem"}) =>
           developer.coffee >= prev.coffee

\* C9 amended: coffee >= 0, and only giveCoffee, unlockSkill, buyItem and a
\* confirmed reset lower it.
C9_CoffeeNeverNegative ==
    /\ developer.coffee >= 0
    /\ (Called /\ ~ConfirmedReset
        /\ ret.op \notin {"giveCoffee", "unlockSkill", "buyItem"}) =>
           developer.coffee >= prev.coffee

\* a purchase that spent the whole balance
C9_Witness ==
    /\ ret.op \in {"unlockSkill", "buyItem"} /\ ret.success
    /\ prev.coffee > 0
    /\ developer.coffee = 0

SkillOf(id) == Find(SKILLS, id)
ItemOf(id) == Find(SHOP_ITEMS, id)

\* the failure cases of each handler, on the state d it was called in
FailureCase(r, d) ==
    CASE r.op = "giveCoffee" -> d.coffee < 10
      [] r.op = "takeBreak" -> d.energy = Full /\ d.motivation = Full
      [] r.op = "unlockSkill" ->
            \/ SkillOf(r.arg) = <<>>
            \/ r.arg \in Elems(d.skills)
            \/ d.coffee < SkillOf(r.arg)[1].cost
      [] r.op = "buyItem" ->
            \/ ItemOf(r.arg) = <<>>
            \/ r.arg \in Elems(d.inventory)
            \/ d.coffee < ItemOf(r.arg)[1].cost
      [] r.op = "equipItem" ->
            \/ ItemOf(r.arg) = <<>>
            \/ r.arg \notin Elems(d.inventory)
            \/ ItemOf(r.arg)[1].type # "skin"
      [] OTHER -> FALSE

\* C10: a handler call that returns success = false is one of the listed
\* failure cases and leaves the in-memory state and the persisted blob as
\* they were.
C10_FailureChangesNothing ==
    [][ret'.success = FALSE =>
          /\ FailureCase(ret', developer)
          /\ developer' = developer
          /\ lastErrorCount' = lastErrorCount
          /\ globalState' = globalState]_vars

\* giveCoffee refused for lack of beans
C10_Witness ==
    /\ ret.op = "giveCoffee" /\ ~ret.success
    /\ developer.coffee < 10

(***************************************************************************)
(* XP grants                                                               *)
(***************************************************************************)
\* the XP ever earned by a developer at this level with this remainder
TotalXP(d) == 50 * d.level * (d.level - 1) + d.xp

\* what the last call added to the XP
Gained == TotalXP(developer) - TotalXP(prev)

BigLimb(x, i) == IF i <= Len(x) THEN x[i] ELSE 0

RECURSIVE BigLeqFrom(_, _, _)
BigLeqFrom(x, y, i) ==
    IF i = 0 THEN TRUE
    ELSE IF BigLimb(x, i) < BigLimb(y, i) THEN TRUE
    ELSE IF BigLimb(x, i) > BigLimb(y, i) THEN FALSE
    ELSE BigLeqFrom(x, y, i - 1)

BigLeq(x, y) == BigLeqFrom(x, y, Max(Len(x), Len(y)))

BigTimesFull3(x) == BigMul(BigMul(BigMul(x, Full), Full), Full)

\* g = floor(num/den * (1+e/100) * (1+f/100) * (1+m/100)) for the stats of d:
\* g*den*Full^3 <= num*(Full+e)*(Full+f)*(Full+m) < (g+1)*den*Full^3
IsFloorOfProduct(g, num, den, d) ==
    LET p == BigMul(BigMul(BigMul(BigOf(num), Full + d.energy),
                           Full + d.focus), Full + d.motivation)
    IN  /\ g >= 0
        /\ BigLeq(BigTimesFull3(BigMul(BigOf(g), den)), p)
        /\ ~BigLeq(BigTimesFull3(BigMul(BigOf(g + 1), den)), p)

\* the handlers whose one addXP call can be read off ret and prev
GrantsXP ==
    \/ ret.op \in {"giveCoffee", "takeBreak"} /\ ret.success
    \/ ret.op \in {"onCodeSaved", "onGitCommit", "challengeCompleted"}

\* the raw amount handed to addXP, as numerator and denominator
RawNum ==
    CASE ret.op = "giveCoffee" -> 5
      [] ret.op = "takeBreak" -> BreakXP(prev)
      [] ret.op = "onCodeSaved" -> 3
      [] ret.op = "onGitCommit" -> 50
      [] ret.op = "challengeCompleted" ->
            ret.arg * 100000 + ret.arg * ret.arg * 1000
            + ret.arg * ret.arg * ret.arg
RawDen == IF ret.op = "challengeCompleted" THEN 100000 ELSE 1

\* the stats addXP read: takeBreak grants before it restores, the others
\* after their boosts
GrantStats == IF ret.op = "takeBreak" THEN prev ELSE developer

AllStats(d, v) == d.energy = v /\ d.focus = v /\ d.motivation = v

\* C11 as stated: a grant at 100/100/100 gains three times the raw amount,
\* a grant at 0/0/0 gains floor(raw), and every grant gains
\* floor(raw * (1+energy/100) * (1+focus/100) * (1+motivation/100)).
C11_FullStatsTriple ==
    GrantsXP =>
        /\ AllStats(GrantStats, Full) => Gained = (3 * RawNum) \div RawDen
        /\ AllStats(GrantStats, 0) => Gained = RawNum \div RawDen
        /\ IsFloorOfProduct(Gained, RawNum, RawDen, GrantStats)

\* C11 amended: a grant at 100/100/100 gains floor(8 * raw), a grant at
\* 0/0/0 gains floor(raw), and every grant gains
\* floor(raw * (1+energy/100) * (1+focus/100) * (1+motivation/100)).
C11_FullStatsEightfold ==
    GrantsXP =>
        /\ AllStats(GrantStats, Full) => Gained = (8 * RawNum) \div RawDen
        /\ AllStats(GrantStats, 0) => Gained = RawNum \div RawDen
        /\ IsFloorOfProduct(Gained, RawNum, RawDen, GrantStats)

\* a commit at 100/100/100: 400 XP for a raw amount of 50
C11_Witness ==
    /\ ret.op = "onGitCommit"
    /\ AllStats(developer, Full)
    /\ Gained = 400

\* a break taken at 0/0/0: the raw amount, unmultiplied
C11_ZeroStatsReached ==
    /\ ret.op = "takeBreak" /\ ret.success
    /\ AllStats(prev, 0)
    /\ Gained = BreakXP(prev)

\* C12: after a confirmed resetProgress the state is the default state:
\* energy = motivation = focus = health = 100, xp = 0, level = 1, coffee = 50,
\* skills, inventory and quests empty, streak = 0, questStreak = 0,
\* dailyQuestsCompleted = false, tutorialCompleted = false,
\* lastDailyBonus = 0.
C12_ResetGivesDefaults ==
    ConfirmedReset =>
        /\ AllStats(developer, Full)
        /\ developer.health = 100 * HealthScale
        /\ developer.xp = 0 /\ developer.level = 1
        /\ developer.coffee = 50
        /\ developer.skills = <<>> /\ developer.inventory = <<>>
        /\ developer.quests = <<>>
        /\ developer.streak = 0
        /\ Has(developer, "questStreak") /\ developer.questStreak = 0
        /\ Has(developer, "dailyQuestsCompleted")
        /\ ~developer.dailyQuestsCompleted
        /\ Has(developer, "tutorialCompleted") /\ ~developer.tutorialCompleted
        /\ developer.lastDailyBonus = 0

\* C13 as stated: challengeCompleted(score) adds floor(score/10) coffee and
\* returns it, adds 20 motivation clamped to 100, and for score = 300
\* returns 30 and grants a raw XP amount of 579.
C13_Raw579 ==
    ret.op = "challengeCompleted" =>
        /\ developer.coffee = prev.coffee + ret.arg \div 10
        /\ ret.value = ret.arg \div 10
        /\ developer.motivation = Min(Full, prev.motivation + 20 * Scale)
        /\ ret.arg = 300 =>
               /\ ret.value = 30
               /\ IsFloorOfProduct(Gained, 579, 1, developer)

\* C13 amended: challengeCompleted(score) adds floor(score/10) coffee and
\* returns it, adds 20 motivation clamped to 100, and grants the raw XP
\* amount score + score^2/100 + score^3/100000, which for score = 300 is
\* 300 + 900 + 270 = 1470, with 30 returned.
C13_Raw1470 ==
    ret.op = "challengeCompleted" =>
        /\ developer.coffee = prev.coffee + ret.arg \div 10
        /\ ret.value = ret.arg \div 10
        /\ developer.motivation = Min(Full, prev.motivation + 20 * Scale)
        /\ IsFloorOfProduct(Gained, RawNum, RawDen, developer)
        /\ ret.arg = 300 =>
               /\ ret.value = 30
               /\ IsFloorOfProduct(Gained, 1470, 1, developer)

\* a challenge scored 300 whose motivation boost was clamped at 100
C13_Witness ==
    /\ ret.op = "challengeCompleted"
    /\ ret.arg = 300 /\ ret.value = 30
    /\ prev.motivation > 80 * Scale /\ prev.motivation < Full
    /\ developer.motivation = Full
    /\ Gained > 1470

(***************************************************************************)
(* Quests and bonuses                                                      *)
(***************************************************************************)
\* the last call left the quest set in place
NoRegeneration == Called /\ ~BonusFired /\ ~ConfirmedReset

\* the quest type the last call reported progress for
ReportedType ==
    CASE ret.op = "onCodeSaved" -> "save"
      [] ret.op = "onGitCommit" -> "commit"
      [] ret.op = "updateErrorCount" -> "fix"
      [] ret.op = "updateStats" -> "time"
      [] OTHER -> "none"

\* what the last call did to coffee apart from quests and bonuses
DirectCoffee ==
    CASE ret.op = "giveCoffee" /\ ret.success -> 0 - 10
      [] ret.op = "onCodeSaved" -> 1
      [] ret.op = "onGitCommit" -> 5
      [] ret.op = "challengeCompleted" -> ret.arg \div 10
      [] ret.op = "unlockSkill" /\ ret.success -> 0 - SkillOf(ret.arg)[1].cost
      [] ret.op = "buyItem" /\ ret.success -> 0 - ItemOf(ret.arg)[1].cost
      [] OTHER -> 0

NewlyCompleted(i) == developer.quests[i].completed /\ ~prev.quests[i].completed

RECURSIVE RewardsFrom(_)
RewardsFrom(i) ==
    IF i > Len(developer.quests) THEN 0
    ELSE (IF NewlyCompleted(i) THEN prev.quests[i].reward ELSE 0)
         + RewardsFrom(i + 1)

\* the last call set dailyQuestsCompleted
AllCompleteFired ==
    /\ NoRegeneration
    /\ GetOr(developer, "dailyQuestsCompleted", FALSE)
    /\ ~GetOr(prev, "dailyQuestsCompleted", FALSE)

AllCompleteCoffee ==
    IF AllCompleteFired THEN 50 + 10 * developer.questStreak ELSE 0

\* C14: a quest's reward is added to coffee exactly once, in the call in
\* which its progress first reaches its target; a completed quest stays
\* completed, and later calls of its type neither change its progress nor
\* pay its reward again, until the quest set is regenerated.
C14_RewardOnce ==
    /\ \A i \in 1..Len(developer.quests) :
           developer.quests[i].completed <=>
               developer.quests[i].progress >= developer.quests[i].target
    /\ NoRegeneration =>
           /\ Len(developer.quests) = Len(prev.quests)
           /\ \A i \in 1..Len(prev.quests) :
                  /\ prev.quests[i].completed =>
                         developer.quests[i] = prev.quests[i]
                  /\ NewlyCompleted(i) =>
                         /\ prev.quests[i].type = ReportedType
                         /\ developer.quests[i].progress = prev.quests[i].target
           /\ developer.coffee - prev.coffee - DirectCoffee - AllCompleteCoffee
                  = RewardsFrom(1)

\* a commit reported while the commit quest was already completed: its
\* reward is not paid again
C14_Witness ==
    /\ ret.op = "onGitCommit" /\ NoRegeneration
    /\ \E i \in 1..Len(prev.quests) :
           /\ prev.quests[i].type = "commit" /\ prev.quests[i].completed
           /\ prev.quests[i].reward > 0
    /\ developer.coffee = prev.coffee + 5

\* a call that completed a quest and was paid its reward
C14_CompletionReached ==
    /\ NoRegeneration
    /\ \E i \in 1..Len(prev.quests) : NewlyCompleted(i)
    /\ RewardsFrom(1) > 0
    /\ developer.coffee >= prev.coffee + RewardsFrom(1)

\* what the last call paid beyond the handler's own amount and the rewards
\* of the quests it completed
BonusCoffee == developer.coffee - prev.coffee - DirectCoffee - RewardsFrom(1)

\* C15: for each generated quest set the all-quests-complete bonus is paid
\* at most once: in the call that completes the last incomplete quest, which
\* sets dailyQuestsCompleted, raises questStreak by exactly 1 and adds
\* 50 + 10*questStreak coffee for the raised questStreak; no later call pays
\* it again before the next regeneration.
C15_AllCompleteBonusOnce ==
    NoRegeneration =>
        /\ AllCompleteFired <=>
               /\ \E i \in 1..Len(prev.quests) : NewlyCompleted(i)
               /\ \A i \in 1..Len(developer.quests) :
                      developer.quests[i].completed
        /\ AllCompleteFired =>
               /\ developer.questStreak = prev.questStreak + 1
               /\ BonusCoffee = 50 + 10 * developer.questStreak
        /\ ~AllCompleteFired =>
               /\ developer.questStreak = prev.questStreak
               /\ developer.dailyQuestsCompleted = prev.dailyQuestsCompleted
               /\ BonusCoffee = 0

\* the call that completed the last open quest of the set and was paid the
\* bonus for the raised quest streak
C15_Witness ==
    /\ AllCompleteFired
    /\ developer.questStreak = 2
    /\ BonusCoffee = 70

\* a quest-reporting call made after the bonus of the set was paid
C15_LaterCallReached ==
    /\ NoRegeneration
    /\ prev.dailyQuestsCompleted
    /\ ReportedType # "none"

\* C16: the daily bonus fires in a tick if and only if
\* now - lastDailyBonus >= 24h, and firing sets lastDailyBonus = now; so one
\* tick fires it once however long the gap, and two firings with no reset
\* between them are at least 24h apart.
C16_BonusIffDayPassed ==
    /\ developer.lastDailyBonus <= now
    /\ ret.op = "updateStats" =>
           IF now - prev.lastDailyBonus >= 24 * UnitsPerHour
           THEN /\ developer.lastDailyBonus = now
                /\ developer.streak \in {1, prev.streak + 1}
                /\ ~IsActive(ret.arg) =>
                       developer.coffee = prev.coffee + 20 + 5 * developer.streak
           ELSE /\ developer.lastDailyBonus = prev.lastDailyBonus
                /\ developer.streak = prev.streak
                /\ ~IsActive(ret.arg) => developer.coffee = prev.coffee
    /\ (Called /\ ret.op # "updateStats" /\ ~ConfirmedReset) =>
           /\ developer.lastDailyBonus = prev.lastDailyBonus
           /\ developer.streak = prev.streak

\* a tick exactly 24 hours after the previous bonus, which fires the next
C16_Witness ==
    /\ ret.op = "updateStats"
    /\ prev.lastDailyBonus > 0
    /\ now - prev.lastDailyBonus = 24 * UnitsPerHour
    /\ developer.lastDailyBonus = now
    /\ developer.coffee > prev.coffee

\* a tick 48 hours after the previous one pays one bonus, not two
C16_LongGapReached ==
    /\ ret.op = "updateStats" /\ ret.arg = 48 * UnitsPerHour
    /\ developer.lastDailyBonus = now
    /\ developer.coffee = prev.coffee + 25

\* a time quest of d that the report of this many minutes completes
TimeQuestDone(q, minutes) ==
    q.type = "time" /\ ~q.completed /\ q.progress + minutes >= q.target

RECURSIVE TimeRewardsFrom(_, _, _)
TimeRewardsFrom(d, minutes, i) ==
    IF i > Len(d.quests) THEN 0
    ELSE (IF TimeQuestDone(d.quests[i], minutes) THEN d.quests[i].reward ELSE 0)
         + TimeRewardsFrom(d, minutes, i + 1)

\* what the time report of a tick over dt pays on the quests of d, before
\* the daily bonus is looked at
TimeReportCoffee(d, dt) ==
    IF dt * 1000 < 83 * UnitsPerHour
    THEN LET minutes == (dt * 60) \div UnitsPerHour
             allDone == /\ Len(d.quests) > 0
                        /\ ~GetOr(d, "dailyQuestsCompleted", FALSE)
                        /\ \A i \in 1..Len(d.quests) :
                               \/ d.quests[i].completed
                               \/ TimeQuestDone(d.quests[i], minutes)
         IN  TimeRewardsFrom(d, minutes, 1)
             + (IF allDone THEN 50 + 10 * (GetOr(d, "questStreak", 0) + 1)
                ELSE 0)
    ELSE 0

\* the coffee held when the daily bonus of the last call was computed
CoffeeBeforeBonus ==
    IF ConfirmedReset THEN 50
    ELSE prev.coffee + TimeReportCoffee(prev, ret.arg)

\* the streak held when the daily bonus check of the last call began
StreakBeforeBonus == IF ConfirmedReset THEN 0 ELSE prev.streak

\* C17 as stated: when the daily bonus fires, the coffee awarded is
\* 20 + 5*streak for the streak held before the firing updates it.
C17_BonusFromOldStreak ==
    (BonusFired \/ ConfirmedReset) =>
        developer.coffee = CoffeeBeforeBonus + 20 + 5 * StreakBeforeBonus

\* C17 amended: when the daily bonus fires, the coffee awarded is
\* 20 + 5*streak for the streak as the firing has just set it (the old
\* streak plus 1, or 1).
C17_BonusFromNewStreak ==
    (BonusFired \/ ConfirmedReset) =>
        /\ developer.streak \in {StreakBeforeBonus + 1, 1}
        /\ developer.coffee = CoffeeBeforeBonus + 20 + 5 * developer.streak

\* a firing that raised the streak from 2 to 3 and paid 35
C17_Witness ==
    /\ BonusFired
    /\ prev.streak = 2 /\ developer.streak = 3
    /\ developer.coffee = CoffeeBeforeBonus + 35

\* q is a fresh quest built from template k of the catalog
FreshFrom(q, k) ==
    /\ q.description = templates[k].desc /\ q.type = templates[k].type
    /\ q.target = templates[k].target /\ q.reward = templates[k].reward
    /\ q.progress = 0 /\ q.completed = FALSE

\* the last call replaced the quest set
Regenerated == BonusFired \/ ConfirmedReset

\* C18: the quest list has length 0 or 3; a regeneration replaces it with
\* exactly 3 quests built from 3 pairwise distinct templates of the catalog
\* of 8, each with progress 0 and not completed, also at the end of a tick
\* that reported active time and fired the daily bonus.
C18_ThreeFreshQuests ==
    /\ Len(templates) = 8
    /\ Len(developer.quests) \in {0, 3}
    /\ Regenerated =>
           /\ Len(developer.quests) = 3
           /\ \E k1, k2, k3 \in 1..Len(templates) :
                  /\ k1 # k2 /\ k1 # k3 /\ k2 # k3
                  /\ FreshFrom(developer.quests[1], k1)
                  /\ FreshFrom(developer.quests[2], k2)
                  /\ FreshFrom(developer.quests[3], k3)

\* a tick three minutes after the previous one that fired the daily bonus
\* and left a new time quest, untouched by the minutes it reported
C18_Witness ==
    /\ BonusFired
    /\ ret.arg = 1 /\ IsActive(ret.arg)
    /\ \E i \in 1..Len(developer.quests) :
           developer.quests[i].type = "time" /\ developer.quests[i].progress = 0

\* an open time quest of the set the last tick found
OpenTimeQuest(i) == prev.quests[i].type = "time" /\ ~prev.quests[i].completed

\* the last tick's hoursPassed was under 0.083
ShortTick == ret.arg * 1000 < 83 * UnitsPerHour

\* hoursPassed * 60 of the last tick
TickMinutes == (ret.arg * 60) \div UnitsPerHour

\* C19 as stated: a tick over 0.083 hours or more adds nothing to any time
\* quest, and a tick over less adds exactly the elapsed minutes to every
\* incomplete time quest.
C19_ExactMinutes ==
    (ret.op = "updateStats" /\ NoRegeneration) =>
        \A i \in 1..Len(prev.quests) :
            IF OpenTimeQuest(i) /\ ShortTick
            THEN developer.quests[i].progress
                     = prev.quests[i].progress + TickMinutes
            ELSE developer.quests[i].progress = prev.quests[i].progress

\* C19 amended: a tick over 0.083 hours or more adds nothing to any time
\* quest, and a tick over less adds the elapsed minutes to every incomplete
\* time quest, stopping at the quest's target.
C19_MinutesUpToTarget ==
    (ret.op = "updateStats" /\ NoRegeneration) =>
        \A i \in 1..Len(prev.quests) :
            IF OpenTimeQuest(i) /\ ShortTick
            THEN developer.quests[i].progress
                     = Min(prev.quests[i].target,
                           prev.quests[i].progress + TickMinutes)
            ELSE developer.quests[i].progress = prev.quests[i].progress

\* a three-minute tick on a time quest two minutes short of its target
C19_Witness ==
    /\ ret.op = "updateStats" /\ NoRegeneration /\ ShortTick
    /\ \E i \in 1..Len(prev.quests) :
           /\ OpenTimeQuest(i)
           /\ prev.quests[i].progress + TickMinutes > prev.quests[i].target
           /\ developer.quests[i].progress = prev.quests[i].target

\* a one-hour tick that found an open time quest and left it as it was
C19_LongTickReached ==
    /\ ret.op = "updateStats" /\ NoRegeneration /\ ~ShortTick
    /\ \E i \in 1..Len(prev.quests) :
           OpenTimeQuest(i) /\ developer.quests[i] = prev.quests[i]

\* a three-minute tick that added three minutes to an open time quest
C19_ShortTickReached ==
    /\ ret.op = "updateStats" /\ NoRegeneration /\ ShortTick
    /\ \E i \in 1..Len(prev.quests) :
           /\ OpenTimeQuest(i)
           /\ developer.quests[i].progress = prev.quests[i].progress + 3

(***************************************************************************)
(* Decay                                                                   *)
(***************************************************************************)
\* h * rate for the last tick, the rate given in tenths of a point per hour
Lost(tenths) == (ret.arg * tenths * Scale) \div (10 * UnitsPerHour)

\* C20: a tick over h hours with zero errors sets energy to
\* max(0, energy - h*re), motivation to max(0, motivation - h*rm) and focus
\* to max(0, focus - h*rf), with re = 4 (3.4 with furn_chair), rm = 2 (1.7
\* with acc_keyboard), rf = 3 (2.1 with iron_focus); from 100/100/100 with
\* no modifier and h = 1 the result is 96/98/97 with health 97.
C20_DecayRates ==
    (ret.op = "updateStats" /\ lastErrorCount = 0) =>
        LET re == IF "furn_chair" \in Elems(prev.inventory) THEN 34 ELSE 40
            rm == IF "acc_keyboard" \in Elems(prev.inventory) THEN 17 ELSE 20
            rf == IF "iron_focus" \in Elems(prev.skills) THEN 21 ELSE 30
        IN  /\ developer.energy = Max(0, prev.energy - Lost(re))
            /\ developer.motivation = Max(0, prev.motivation - Lost(rm))
            /\ developer.focus = Max(0, prev.focus - Lost(rf))
            /\ (/\ AllStats(prev, Full) /\ ret.arg = UnitsPerHour
                /\ prev.inventory = <<>> /\ prev.skills = <<>>) =>
                   /\ developer.energy = 96 * Scale
                   /\ developer.motivation = 98 * Scale
                   /\ developer.focus = 97 * Scale
                   /\ developer.health = 97 * HealthScale

\* one hour from 100/100/100 with no errors and no modifier
C20_Witness ==
    /\ ret.op = "updateStats" /\ lastErrorCount = 0
    /\ ret.arg = UnitsPerHour
    /\ AllStats(prev, Full)
    /\ prev.inventory = <<>> /\ prev.skills = <<>>
    /\ developer.energy = 96 * Scale
    /\ developer.health = 97 * HealthScale

\* a tick with no errors for an owner of the chair, of the keyboard, of
\* iron_focus
C20_ChairReached ==
    /\ ret.op = "updateStats" /\ lastErrorCount = 0 /\ ret.arg = UnitsPerHour
    /\ "furn_chair" \in Elems(prev.inventory)
    /\ developer.energy > 0
C20_KeyboardReached ==
    /\ ret.op = "updateStats" /\ lastErrorCount = 0 /\ ret.arg = UnitsPerHour
    /\ "acc_keyboard" \in Elems(prev.inventory)
    /\ developer.motivation > 0
C20_IronFocusReached ==
    /\ ret.op = "updateStats" /\ lastErrorCount = 0 /\ ret.arg = UnitsPerHour
    /\ "iron_focus" \in Elems(prev.skills)
    /\ developer.focus > 0

(***************************************************************************)
(* calculateMood on its own: every combination of stats on either side of  *)
(* each threshold, at hours on either side of the night                    *)
(***************************************************************************)
MoodHours == {5, 6, 21, 22}
MoodHealths == {30 * HealthScale - 1, 30 * HealthScale}
MoodEnergies == {30 * Scale - 1, 30 * Scale}
MoodFocuses == {30 * Scale - 1, 30 * Scale}
MoodCoffees == {80, 81}
MoodMotivations == {70 * Scale, 70 * Scale + 1}

MoodInit ==
    \E hour \in MoodHours, h \in MoodHealths, e \in MoodEnergies,
       f \in MoodFocuses, c \in MoodCoffees, mo \in MoodMotivations :
        LET t == T0 - 21 * UnitsPerHour + hour * UnitsPerHour
            d == [DefaultDeveloper(t) EXCEPT !.health = h, !.energy = e,
                     !.focus = f, !.coffee = c, !.motivation = mo]
        IN  /\ developer = d
            /\ lastErrorCount = 0
            /\ globalState = d
            /\ now = t
            /\ ret = Void("constructor", "")
            /\ prev = d
            /\ calls = 0 /\ host = activate(StartHeads) /\ snapshot = NoSnapshot

\* this.developer.mood = this.calculateMood()
AssignMood ==
    /\ calls = 0
    /\ developer' = [developer EXCEPT !.mood = calculateMood(developer, HourOf(now))]
    /\ ret' = Void("calculateMood", "")
    /\ prev' = developer
    /\ calls' = calls + 1
    /\ UNCHANGED <<lastErrorCount, globalState, now, env>>

MoodNext == AssignMood

MoodSpec == MoodInit /\ [][MoodNext]_vars

\* C21: calculateMood returns the first matching rule in this order: hour
\* >= 22 or < 6 gives sleeping; else health < 30 gives burnt-out; else energy
\* < 30 gives tired; else focus < 30 gives stressed; else coffee > 80 gives
\* caffeinated; else motivation > 70 gives productive; else neutral.
C21_FirstRuleWins ==
    ret.op = "calculateMood" =>
        LET hour == (now \div UnitsPerHour) % 24
            night == hour >= 22 \/ hour < 6
            lowHealth == prev.health < 30 * HealthScale
            lowEnergy == prev.energy < 30 * Scale
            lowFocus == prev.focus < 30 * Scale
            beans == prev.coffee > 80
            keen == prev.motivation > 70 * Scale
            mood == developer.mood
        IN  /\ mood = "sleeping" <=> night
            /\ mood = "burnt-out" <=> ~night /\ lowHealth
            /\ mood = "tired" <=> ~night /\ ~lowHealth /\ lowEnergy
            /\ mood = "stressed" <=>
                   ~night /\ ~lowHealth /\ ~lowEnergy /\ lowFocus
            /\ mood = "caffeinated" <=>
                   ~night /\ ~lowHealth /\ ~lowEnergy /\ ~lowFocus /\ beans
            /\ mood = "productive" <=>
                   /\ ~night /\ ~lowHealth /\ ~lowEnergy /\ ~lowFocus
                   /\ ~beans /\ keen
            /\ mood = "neutral" <=>
                   /\ ~night /\ ~lowHealth /\ ~lowEnergy /\ ~lowFocus
                   /\ ~beans /\ ~keen

\* low energy, low focus, many beans and high motivation at once, by day:
\* the earliest rule gives the mood
C21_Witness ==
    /\ ret.op = "calculateMood"
    /\ developer.mood = "tired"
    /\ prev.focus < 30 * Scale /\ prev.coffee > 80
    /\ prev.motivation > 70 * Scale

(***************************************************************************)
(* Player actions                                                          *)
(***************************************************************************)
\* C22: giveCoffee with coffee >= 10 succeeds and takes 10 coffee, adds 35
\* energy (52 with caffeine_tolerance), 20 focus and 10 motivation, each
\* clamped to 100, and grants XP for a raw amount of 5; with coffee = 50 and
\* no skills the resulting coffee is 40.
C22_GiveCoffeeEffects ==
    /\ ret.op = "giveCoffee" =>
           /\ ret.success <=> prev.coffee >= 10
           /\ ret.success =>
                  LET boost == IF "caffeine_tolerance" \in Elems(prev.skills)
                               THEN 52 ELSE 35
                  IN  /\ developer.coffee = prev.coffee - 10
                      /\ developer.energy = Min(Full, prev.energy + boost * Scale)
                      /\ developer.focus = Min(Full, prev.focus + 20 * Scale)
                      /\ developer.motivation
                             = Min(Full, prev.motivation + 10 * Scale)
                      /\ IsFloorOfProduct(Gained, 5, 1, developer)
    /\ LET r == giveCoffee([M EXCEPT !.developer.coffee = 50,
                                     !.developer.skills = <<>>])
       IN  r.ret.success /\ r.m.developer.coffee = 40

\* a coffee given to a holder of caffeine_tolerance, the boost of 52 not
\* clamped
C22_Witness ==
    /\ ret.op = "giveCoffee" /\ ret.success
    /\ "caffeine_tolerance" \in Elems(prev.skills)
    /\ developer.energy = prev.energy + 52 * Scale
    /\ developer.energy < Full
    /\ Gained > 5

\* C23: takeBreak succeeds exactly when not (energy = 100 and motivation =
\* 100); on success it grants XP for the raw amount
\* floor(max(5, 5*(100-energy)/40, 5*(100-motivation)/15)) of the energy and
\* motivation held before the break, then adds 40 energy and 15 motivation
\* (clamped to 100) and takes 5 focus (floored at 0).
C23_TakeBreakEffects ==
    ret.op = "takeBreak" =>
        /\ ret.success <=> ~(prev.energy = Full /\ prev.motivation = Full)
        /\ ret.success =>
               LET byEnergy == (5 * (100 * Scale - prev.energy)) \div (40 * Scale)
                   byMotivation ==
                       (5 * (100 * Scale - prev.motivation)) \div (15 * Scale)
                   raw == Max(5, Max(byEnergy, byMotivation))
               IN  /\ IsFloorOfProduct(Gained, raw, 1, prev)
                   /\ developer.energy = Min(Full, prev.energy + 40 * Scale)
                   /\ developer.motivation
                          = Min(Full, prev.motivation + 15 * Scale)
                   /\ developer.focus = Max(0, prev.focus - 5 * Scale)

\* a break taken with little energy left: the raw amount is above 5, and
\* the stats before and after the break give different XP
C23_Witness ==
    /\ ret.op = "takeBreak" /\ ret.success
    /\ prev.energy < 50 * Scale /\ prev.energy > 0
    /\ developer.energy = prev.energy + 40 * Scale
    /\ Gained > 5
    /\ ~IsFloorOfProduct(Gained, BreakXP(developer), 1, developer)

\* a break refused at full energy and motivation
C23_RefusalReached ==
    /\ ret.op = "takeBreak" /\ ~ret.success
    /\ prev.energy = Full /\ prev.motivation = Full

(***************************************************************************)
(* Linter sync                                                             *)
(***************************************************************************)
\* what updateErrorCount(c) did in this step, but for the fix quests
ErrorCountStep(c) ==
    /\ lastErrorCount' = c
    /\ IF c < lastErrorCount
       THEN LET n == lastErrorCount - c
                raw == IF "bug_slayer" \in Elems(developer.skills)
                       THEN 10 * n ELSE 5 * n
            IN  /\ IsFloorOfProduct(TotalXP(developer') - TotalXP(developer),
                                     raw, 1, developer)
                /\ developer'.motivation
                       = Min(Full, developer.motivation + n * Scale)
                /\ developer'.focus = developer.focus
       ELSE IF c > lastErrorCount
       THEN /\ developer'.focus
                  = Max(0, developer.focus - ((c - lastErrorCount) * Scale) \div 2)
            /\ developer'.xp = developer.xp
            /\ developer'.level = developer.level
            /\ developer'.motivation = developer.motivation
            /\ developer'.coffee = developer.coffee
            /\ developer'.quests = developer.quests
       ELSE developer' = developer

\* an open fix quest of the set updateErrorCount found
OpenFixQuest(i) ==
    developer.quests[i].type = "fix" /\ ~developer.quests[i].completed

\* C24 as stated: updateErrorCount(c) ends with lastErrorCount = c; a count
\* lower by n grants raw XP 5*n (10*n with bug_slayer), adds n to motivation
\* (clamped), adds n to the progress of incomplete fix quests and leaves
\* focus alone; a count higher by d lowers focus by 0.5*d (floored at 0) and
\* changes neither xp, level, motivation nor coffee; an equal count changes
\* nothing in the avatar state.
C24_FixAddsN ==
    [][ret'.op = "updateErrorCount" =>
          /\ ErrorCountStep(ret'.arg)
          /\ ret'.arg < lastErrorCount =>
                 \A i \in 1..Len(developer.quests) :
                     developer'.quests[i].progress
                         = IF OpenFixQuest(i)
                           THEN developer.quests[i].progress
                                + (lastErrorCount - ret'.arg)
                           ELSE developer.quests[i].progress]_vars

\* C24 amended: as stated, but the progress of an incomplete fix quest
\* rises by n only up to the quest's target.
C24_FixAddsUpToTarget ==
    [][ret'.op = "updateErrorCount" =>
          /\ ErrorCountStep(ret'.arg)
          /\ ret'.arg < lastErrorCount =>
                 \A i \in 1..Len(developer.quests) :
                     developer'.quests[i].progress
                         = IF OpenFixQuest(i)
                           THEN Min(developer.quests[i].target,
                                    developer.quests[i].progress
                                    + (lastErrorCount - ret'.arg))
                           ELSE developer.quests[i].progress]_vars

\* ten errors fixed at once by a holder of bug_slayer: 10 motivation, and a
\* fix quest with target 3 completed at progress 3
C24_Witness ==
    /\ ret.op = "updateErrorCount" /\ ret.arg = 0
    /\ "bug_slayer" \in Elems(prev.skills)
    /\ developer.motivation = prev.motivation + 10 * Scale
    /\ Gained >= 100
    /\ \E i \in 1..Len(prev.quests) :
           /\ prev.quests[i].type = "fix" /\ prev.quests[i].progress = 0
           /\ developer.quests[i].progress = 3

(***************************************************************************)
(* Skill tree and shop                                                     *)
(***************************************************************************)
\* the price list of the skill tree
SkillCost(id) ==
    CASE id = "caffeine_tolerance" -> 50
      [] id = "iron_focus" -> 75
      [] id = "bug_slayer" -> 100
      [] OTHER -> 0
SkillKnown(id) == id \in {"caffeine_tolerance", "iron_focus", "bug_slayer"}

NoDuplicates(seq) == Cardinality(Elems(seq)) = Len(seq)

\* C25: unlockSkill(id) succeeds exactly when id is in the skill catalog,
\* is not yet unlocked and coffee >= cost; on success coffee falls by the
\* cost, id is added to skills once (skills never holds a duplicate), and
\* energy, motivation, focus, health, xp, level, inventory, role, quests,
\* streak and questStreak are unchanged.
C25_UnlockSkillEffects ==
    /\ NoDuplicates(developer.skills)
    /\ ret.op = "unlockSkill" =>
           /\ ret.success <=>
                  /\ SkillKnown(ret.arg)
                  /\ ret.arg \notin Elems(prev.skills)
                  /\ prev.coffee >= SkillCost(ret.arg)
           /\ ret.success =>
                  /\ developer.coffee = prev.coffee - SkillCost(ret.arg)
                  /\ developer.skills = Append(prev.skills, ret.arg)
                  /\ [developer EXCEPT !.coffee = prev.coffee,
                                       !.skills = prev.skills] = prev

\* a second skill unlocked for 75 beans
C25_Witness ==
    /\ ret.op = "unlockSkill" /\ ret.success /\ ret.arg = "iron_focus"
    /\ Len(prev.skills) = 1
    /\ Len(developer.skills) = 2
    /\ developer.coffee = prev.coffee - 75

\* the price list of the shop, and the emoji of its skins
ItemCost(id) ==
    CASE id = "skin_suit" -> 150
      [] id = "skin_space" -> 300
      [] id = "furn_chair" -> 200
      [] id = "acc_keyboard" -> 250
      [] OTHER -> 0
ItemKnown(id) == id \in {"skin_suit", "skin_space", "furn_chair", "acc_keyboard"}
SkinEmoji(id) ==
    CASE id = "skin_suit" -> "emoji_suit"
      [] id = "skin_space" -> "emoji_space"
      [] OTHER -> ""

\* C26: buyItem(id) succeeds exactly when id is in the shop catalog, is not
\* yet owned and coffee >= cost; on success coffee falls by the cost, id is
\* added to inventory once, and role becomes the item's emoji if and only if
\* the item is a skin.
C26_BuyItemEffects ==
    /\ NoDuplicates(developer.inventory)
    /\ ret.op = "buyItem" =>
           /\ ret.success <=>
                  /\ ItemKnown(ret.arg)
                  /\ ret.arg \notin Elems(prev.inventory)
                  /\ prev.coffee >= ItemCost(ret.arg)
           /\ ret.success =>
                  /\ developer.coffee = prev.coffee - ItemCost(ret.arg)
                  /\ developer.inventory = Append(prev.inventory, ret.arg)
                  /\ developer.role = IF ret.arg \in {"skin_suit", "skin_space"}
                                      THEN SkinEmoji(ret.arg) ELSE prev.role
                  /\ [developer EXCEPT !.coffee = prev.coffee,
                                       !.inventory = prev.inventory,
                                       !.role = prev.role] = prev

\* a skin bought by the wearer of another skin: the role changes
C26_Witness ==
    /\ ret.op = "buyItem" /\ ret.success /\ ret.arg = "skin_space"
    /\ prev.role = "emoji_suit"
    /\ developer.role = "emoji_space"
    /\ developer.coffee = prev.coffee - 300

\* a chair bought by the wearer of a skin: the role stays
C26_FurnitureReached ==
    /\ ret.op = "buyItem" /\ ret.success /\ ret.arg = "furn_chair"
    /\ developer.role = "emoji_suit"

(***************************************************************************)
(* loadDeveloper on its own: no blob, or a blob of an earlier version that *)
(* lacks any set of the fields added since                                 *)
(***************************************************************************)
NewerFields == {"inventory", "lastDailyBonus", "streak", "skills", "quests",
                "questStreak", "dailyQuestsCompleted", "tutorialCompleted"}

\* the blob without the fields of missing
Without(blob, missing) == [f \in (DOMAIN blob) \ missing |-> blob[f]]

\* the record with no field stands for a key never written
NoBlob == [f \in {} |-> 0]

LoadInit ==
    \E stored \in {NoBlob} \cup {Without(Veteran, missing) :
                                     missing \in SUBSET NewerFields} :
        /\ globalState = stored
        /\ developer = stored
        /\ prev = stored
        /\ lastErrorCount = 0
        /\ now = T0
        /\ ret = Void("activate", "")
        /\ calls = 0 /\ host = activate(StartHeads) /\ snapshot = NoSnapshot

\* this.developer = this.loadDeveloper()
Load ==
    /\ calls = 0
    /\ developer' = loadDeveloper(IF DOMAIN globalState = {} THEN <<>>
                                  ELSE <<globalState>>, now)
    /\ ret' = Void("loadDeveloper", "")
    /\ prev' = developer
    /\ calls' = calls + 1
    /\ UNCHANGED <<lastErrorCount, globalState, now, env>>

LoadNext == Load

LoadSpec == LoadInit /\ [][LoadNext]_vars

\* C27: loading never rejects a persisted blob: each of inventory,
\* lastDailyBonus, streak, skills, quests, questStreak,
\* dailyQuestsCompleted, tutorialCompleted that the blob lacks is set to its
\* default (empty list, 0 or false) and every field that was present keeps
\* its persisted value; with no persisted blob the defaults are built.
C27_LoaderBackfills ==
    ret.op = "loadDeveloper" =>
        IF DOMAIN prev = {}
        THEN /\ AllStats(developer, Full)
             /\ developer.health = 100 * HealthScale
             /\ developer.xp = 0 /\ developer.level = 1
             /\ developer.coffee = 50 /\ developer.name = "Dev"
             /\ developer.mood = "productive" /\ developer.role = "emoji_dev"
             /\ developer.lastUpdated = now
             /\ developer.skills = <<>> /\ developer.inventory = <<>>
             /\ developer.quests = <<>>
             /\ developer.lastDailyBonus = 0 /\ developer.streak = 0
             /\ developer.questStreak = 0
             /\ developer.dailyQuestsCompleted = FALSE
             /\ developer.tutorialCompleted = FALSE
        ELSE /\ DOMAIN developer = (DOMAIN prev) \cup NewerFields
             /\ \A f \in DOMAIN prev : developer[f] = prev[f]
             /\ "inventory" \notin DOMAIN prev => developer.inventory = <<>>
             /\ "skills" \notin DOMAIN prev => developer.skills = <<>>
             /\ "quests" \notin DOMAIN prev => developer.quests = <<>>
             /\ "lastDailyBonus" \notin DOMAIN prev => developer.lastDailyBonus = 0
             /\ "streak" \notin DOMAIN prev => developer.streak = 0
             /\ "questStreak" \notin DOMAIN prev => developer.questStreak = 0
             /\ "dailyQuestsCompleted" \notin DOMAIN prev =>
                    developer.dailyQuestsCompleted = FALSE
             /\ "tutorialCompleted" \notin DOMAIN prev =>
                    developer.tutorialCompleted = FALSE

\* a blob without skills, quests and tutorialCompleted, loaded: the three
\* are backfilled and the coffee, level and inventory it held are kept
C27_Witness ==
    /\ ret.op = "loadDeveloper"
    /\ NewerFields \ DOMAIN prev = {"skills", "quests", "tutorialCompleted"}
    /\ developer.skills = <<>> /\ developer.quests = <<>>
    /\ developer.tutorialCompleted = FALSE
    /\ developer.coffee = 320 /\ developer.level = 3
    /\ developer.inventory = <<"skin_suit">>

\* no blob: the defaults
C27_FreshReached ==
    /\ ret.op = "loadDeveloper"
    /\ DOMAIN prev = {}
    /\ developer.coffee = 50

(***************************************************************************)
(* Persistence                                                             *)
(***************************************************************************)
\* C28: when a handler that changed the avatar state returns, the blob last
\* written to the global state equals the in-memory state.
C28_BlobIsCurrent == Called => globalState = developer

\* a quest completed and paid by an error-count event, and persisted
C28_Witness ==
    /\ ret.op = "updateErrorCount"
    /\ developer.coffee > prev.coffee
    /\ globalState = developer
    /\ globalState # prev

(***************************************************************************)
(* Streaks                                                                 *)
(***************************************************************************)
\* the time since the previous bonus when the last tick fired the next
BonusGap == now - prev.lastDailyBonus

\* C29: when the daily bonus fires, streak becomes streak + 1 if
\* 24h <= now - lastDailyBonus < 48h, and 1 in every other firing case (a
\* gap of 48h or more, or no bonus ever awarded before).
C29_StreakRule ==
    /\ BonusFired =>
           /\ BonusGap >= 24 * UnitsPerHour
           /\ developer.streak =
                  IF BonusGap < 48 * UnitsPerHour THEN prev.streak + 1 ELSE 1
    /\ ConfirmedReset => developer.streak = 1

\* a firing exactly 48 hours after the previous bonus: the streak is back
\* at 1
C29_Witness ==
    /\ BonusFired
    /\ prev.lastDailyBonus > 0
    /\ BonusGap = 48 * UnitsPerHour
    /\ prev.streak >= 1
    /\ developer.streak = 1

\* a firing one time unit short of 48 hours after the previous bonus
C29_LastConsecutiveReached ==
    /\ BonusFired
    /\ BonusGap = 48 * UnitsPerHour - 1
    /\ developer.streak = prev.streak + 1

\* the time report of a tick over dt completes every open quest of d
CompletesAll(d, dt) ==
    /\ dt * 1000 < 83 * UnitsPerHour
    /\ Len(d.quests) > 0
    /\ \A i \in 1..Len(d.quests) :
           \/ d.quests[i].completed
           \/ TimeQuestDone(d.quests[i], (dt * 60) \div UnitsPerHour)

\* dailyQuestsCompleted and questStreak as the regeneration of the last
\* call found them
DoneAtRegeneration ==
    IF ConfirmedReset THEN FALSE
    ELSE \/ GetOr(prev, "dailyQuestsCompleted", FALSE)
         \/ CompletesAll(prev, ret.arg)

QuestStreakAtRegeneration ==
    IF ConfirmedReset THEN 0
    ELSE IF ~GetOr(prev, "dailyQuestsCompleted", FALSE)
            /\ CompletesAll(prev, ret.arg)
    THEN GetOr(prev, "questStreak", 0) + 1
    ELSE GetOr(prev, "questStreak", 0)

\* the login streak was broken by the firing of the last call
StreakBroken ==
    \/ ConfirmedReset
    \/ prev.lastDailyBonus = 0
    \/ BonusGap >= 48 * UnitsPerHour

\* C30: at every quest regeneration questStreak is set to 0 if the login
\* streak was just reset to 1 or dailyQuestsCompleted was false for the
\* previous set, and is otherwise left as it was; dailyQuestsCompleted is
\* false after every regeneration.
C30_QuestStreakRule ==
    Regenerated =>
        /\ developer.dailyQuestsCompleted = FALSE
        /\ developer.questStreak =
               IF StreakBroken \/ ~DoneAtRegeneration
               THEN 0 ELSE QuestStreakAtRegeneration

\* a new day after a day whose three quests were all completed, the login
\* streak unbroken: the quest streak is carried over
C30_Witness ==
    /\ BonusFired
    /\ prev.dailyQuestsCompleted
    /\ ~StreakBroken
    /\ developer.questStreak = prev.questStreak
    /\ developer.questStreak >= 2
    /\ ~developer.dailyQuestsCompleted

\* all quests completed, then a gap of two days: the quest streak is lost
C30_BrokenStreakReached ==
    /\ BonusFired
    /\ prev.dailyQuestsCompleted /\ prev.questStreak >= 2
    /\ StreakBroken
    /\ developer.questStreak = 0


\* ---------------------------------------------------------------------
\* Linter stress
\* ---------------------------------------------------------------------

\* n * 0.05 stat points
Stress(n) == (n * Scale) \div 20

\* C31: a tick with stored error count n > 0 lowers energy and motivation
\* each by an extra n * 0.05 (floored at 0) after the time decay, whatever
\* the elapsed time; focus gets no extra drain; with n = 0 there is no
\* extra drain at all.
C31_LinterStress ==
    ret.op = "updateStats" =>
        LET n  == lastErrorCount
            re == IF "furn_chair" \in Elems(prev.inventory) THEN 34 ELSE 40
            rm == IF "acc_keyboard" \in Elems(prev.inventory) THEN 17 ELSE 20
            rf == IF "iron_focus" \in Elems(prev.skills) THEN 21 ELSE 30
            e  == Max(0, prev.energy - Lost(re))
            mo == Max(0, prev.motivation - Lost(rm))
        IN  /\ developer.energy = Max(0, e - Stress(n))
            /\ developer.motivation = Max(0, mo - Stress(n))
            /\ developer.focus = Max(0, prev.focus - Lost(rf))

\* a tick with ten errors and no elapsed time still drains half a point
C31_Witness ==
    /\ ret.op = "updateStats" /\ ret.arg = 0
    /\ lastErrorCount = 10
    /\ prev.energy > Stress(10)
    /\ developer.energy = prev.energy - Stress(10)
    /\ developer.motivation = prev.motivation - Stress(10)
    /\ developer.focus = prev.focus

\* a tick with errors whose drain is cut short by the floor at 0
C31_FloorReached ==
    /\ ret.op = "updateStats" /\ lastErrorCount > 0
    /\ prev.energy > 0 /\ prev.energy - Lost(40) < Stress(lastErrorCount)
    /\ developer.energy = 0

\* ---------------------------------------------------------------------
\* The extension's life cycle: timer, repository hooks, shutdown
\* ---------------------------------------------------------------------
HostInit ==
    \E s \in Sessions, pick \in QuestPicks, heads \in [Repos -> Heads] :
        LET m == Construct(s.stored, T0, pick, s.errors)
        IN  /\ developer = m.developer
            /\ lastErrorCount = m.lastErrorCount
            /\ globalState = m.globalState
            /\ now = T0
            /\ ret = Void("constructor", "")
            /\ prev = m.developer
            /\ calls = 0
            /\ host = activate(heads)
            /\ snapshot = NoSnapshot

\* git.onDidOpenRepository(hookRepo)
OpenRepository ==
    \E repo \in Repos \ host.hooked :
        /\ "git.onDidOpenRepository" \in host.active
        /\ host' = hookRepo(host, repo)
        /\ UNCHANGED <<developer, lastErrorCount, globalState, now, ret, prev,
                       calls, snapshot>>

\* repo.state.onDidChange fires with the repository's HEAD at head
RepoStateChange ==
    \E repo \in host.hooked, head \in Heads :
        /\ "repo.state.onDidChange" \in host.active
        /\ host' = onDidChange(host, repo, head)
        /\ IF IsNewHead(host, repo, head)
           THEN Returns(onGitCommit(M)) /\ UNCHANGED <<now, snapshot>>
           ELSE UNCHANGED <<developer, lastErrorCount, globalState, now, ret,
                            prev, calls, snapshot>>

\* shutdown: the host disposes context.subscriptions
Dispose ==
    /\ ~host.disposed
    /\ host' = dispose(host)
    /\ UNCHANGED <<developer, lastErrorCount, globalState, now, ret, prev,
                   calls, snapshot>>

HostNext ==
    \/ Tick
    \/ OpenRepository
    \/ RepoStateChange
    \/ Dispose

HostSpec == HostInit /\ [][HostNext]_vars

TickStep == calls' = calls + 1 /\ ret'.op = "updateStats"

\* C32: once the subscriptions are disposed at shutdown the 30-second
\* timer is cleared and no further tick is applied to the avatar state.
C32_NoTickAfterDispose ==
    [][host.disposed =>
          /\ "interval" \notin host.active
          /\ host'.disposed /\ "interval" \notin host'.active
          /\ ~TickStep]_vars

\* disposed after a tick went through, the last tick's result still in place
C32_Witness ==
    /\ host.disposed /\ "interval" \notin host.active
    /\ ret.op = "updateStats" /\ calls < MaxCalls

\* the repository listener still delivers a commit after the disposal
C32_CommitAfterDisposeReached ==
    host.disposed /\ ret.op = "onGitCommit"

\* ---------------------------------------------------------------------
\* The read accessor and a caller that writes to what it returned
\* ---------------------------------------------------------------------
CallerScalars == {"coffee", "level"}
CallerCollections == {"skills", "inventory"}
CallerValues == {0, 999}

\* const dev = devManager.getDeveloper()
GetDeveloper ==
    /\ calls < MaxCalls
    /\ snapshot' = getDeveloper(M)
    /\ ret' = Void("getDeveloper", "")
    /\ prev' = developer
    /\ calls' = calls + 1
    /\ UNCHANGED <<developer, lastErrorCount, globalState, now, host>>

\* dev.coffee = v, dev.skills = []: a write to a field of the copy
CallerAssigns ==
    /\ snapshot.held /\ calls < MaxCalls
    /\ \/ \E f \in CallerScalars, v \in CallerValues :
             snapshot' = [snapshot EXCEPT !.dev[f] = v]
       \/ \E f \in CallerCollections \cup {"quests"} :
             snapshot' = [snapshot EXCEPT !.dev[f] = <<>>, !.shared = @ \ {f}]
    /\ calls' = calls + 1
    /\ UNCHANGED <<developer, lastErrorCount, globalState, now, ret, prev, host>>

\* dev.skills.push(x): a write to the array the field refers to
CallerPushes ==
    /\ snapshot.held /\ calls < MaxCalls
    /\ \E f \in CallerCollections, x \in SkillIds \cup ItemIds :
          LET grown == Append(snapshot.dev[f], x)
          IN  /\ snapshot' = [snapshot EXCEPT !.dev[f] = grown]
              /\ developer' = IF f \in snapshot.shared
                              THEN [developer EXCEPT ![f] = grown]
                              ELSE developer
    /\ calls' = calls + 1
    /\ UNCHANGED <<lastErrorCount, globalState, now, ret, prev, host>>

\* dev.quests[i].progress = v: a write to a quest record of the array
CallerEditsQuest ==
    /\ snapshot.held /\ calls < MaxCalls
    /\ \E i \in 1..Len(snapshot.dev.quests), v \in CallerValues :
          LET edited == [snapshot.dev.quests EXCEPT ![i].progress = v]
          IN  /\ snapshot' = [snapshot EXCEPT !.dev.quests = edited]
              /\ developer' = IF "quests" \in snapshot.shared
                              THEN [developer EXCEPT !.quests = edited]
                              ELSE developer
    /\ calls' = calls + 1
    /\ UNCHANGED <<lastErrorCount, globalState, now, ret, prev, host>>

SnapNext ==
    \/ GetDeveloper
    \/ CallerAssigns
    \/ CallerPushes
    \/ CallerEditsQuest

SnapSpec == Init /\ [][SnapNext]_vars

\* C33: the record returned by getDeveloper is an isolated snapshot: no
\* change a caller makes to it, to its skills, inventory and quests
\* collections or to the quest records inside alters the internal state.
C33_SnapshotIsolated == [][snapshot.held => developer' = developer]_vars

\* writes to the copy's own fields stay with the caller
C33_OwnFieldsIsolated ==
    [][(snapshot.held /\ snapshot'.dev.skills = snapshot.dev.skills
        /\ snapshot'.dev.inventory = snapshot.dev.inventory
        /\ snapshot'.dev.quests = snapshot.dev.quests)
          => developer' = developer]_vars

\* a pushed skill has reached the manager's own record
C33_SharedArrayReached ==
    /\ snapshot.held /\ "skills" \in snapshot.shared
    /\ Len(developer.skills) > Len(prev.skills)
    /\ developer.coffee = prev.coffee

\* ---------------------------------------------------------------------
\* Time stamps
\* ---------------------------------------------------------------------
UntimedHandlers ==
    {"giveCoffee", "takeBreak", "onCodeSaved", "onGitCommit",
     "updateErrorCount", "challengeCompleted", "unlockSkill", "buyItem",
     "equipItem", "renameDeveloper"}

\* C34: lastUpdated is changed only by a tick, which sets it to the tick's
\* now, and by a confirmed reset; giveCoffee, takeBreak, onCodeSaved,
\* onGitCommit, updateErrorCount, challengeCompleted, unlockSkill, buyItem,
\* equipItem and renameDeveloper leave lastUpdated, lastDailyBonus and
\* streak unchanged.
C34_TimeStampsFrame ==
    Called =>
        /\ developer.lastUpdated # prev.lastUpdated =>
              (ret.op = "updateStats" \/ ConfirmedReset)
        /\ ret.op = "updateStats" => developer.lastUpdated = now
        /\ ret.op \in UntimedHandlers =>
              /\ developer.lastUpdated = prev.lastUpdated
              /\ developer.lastDailyBonus = prev.lastDailyBonus
              /\ developer.streak = prev.streak

\* a coffee that changed the stats and none of the three fields, in a
\* session whose last tick moved lastUpdated
C34_Witness ==
    /\ ret.op = "giveCoffee" /\ ret.success
    /\ developer.energy # prev.energy
    /\ developer.lastUpdated = prev.lastUpdated
    /\ developer.lastUpdated > T0
    /\ developer.streak = prev.streak

\* a tick that moved lastUpdated to its own time
C34_TickStampReached ==
    /\ ret.op = "updateStats" /\ ret.arg > 0
    /\ developer.lastUpdated = now /\ prev.lastUpdated = now - ret.arg

\* ---------------------------------------------------------------------
\* The avatar's skin
\* ---------------------------------------------------------------------
OwnedSkinEmojis(d) ==
    {SHOP_ITEMS[i].emoji : i \in {j \in 1..Len(SHOP_ITEMS) :
        /\ SHOP_ITEMS[j].type = "skin"
        /\ SHOP_ITEMS[j].id \in Elems(d.inventory)}}

\* C35: role is either the default emoji or the emoji of a skin item that
\* is in inventory, and equipItem changes role only for an owned skin.
C35_RoleIsOwnedSkin ==
    /\ developer.role \in {DefaultRole} \cup OwnedSkinEmojis(developer)
    /\ (ret.op = "equipItem" /\ developer.role # prev.role) =>
          /\ ret.success
          /\ ret.arg \in Elems(prev.inventory)
          /\ SkinEmoji(ret.arg) # "" /\ developer.role = SkinEmoji(ret.arg)
    /\ (ret.op = "equipItem" /\ ~ret.success) => developer.role = prev.role

\* with both skins owned, equipping the older one changed the role
C35_Witness ==
    /\ ret.op = "equipItem" /\ ret.success
    /\ developer.role # prev.role
    /\ developer.role = SkinEmoji(ret.arg)
    /\ ret.arg \in Elems(developer.inventory)

\* equipping a skin that is not owned was refused
C35_RefusalReached ==
    /\ ret.op = "equipItem" /\ ~ret.success
    /\ ret.arg = "skin_space" /\ "skin_space" \notin Elems(developer.inventory)

\* ---------------------------------------------------------------------
\* Level-ups
\* ---------------------------------------------------------------------
\* what the one addXP call of the last handler added to xp before the
\* level-up loop; updateErrorCount grants for the errors fixed, counted
\* from an earlier error count
FixGrants ==
    {Momentum(prev, (c - ret.arg) * 5
                    * (IF "bug_slayer" \in Elems(prev.skills) THEN 2 ELSE 1), 1) :
        c \in {e \in ErrorCounts : e > ret.arg}}

Grants ==
    IF GrantsXP THEN {Momentum(GrantStats, RawNum, RawDen)}
    ELSE IF ret.op = "updateErrorCount" THEN FixGrants \cup {0}
    ELSE {0}

\* C36: XP is conserved across level-ups: without a reset,
\* 100*level*(level-1)/2 + xp grows by exactly what each grant adds (so it
\* equals the sum of all grants since the default state, where it is 0);
\* each level-up from level L takes L*100 xp and adds one level, even when
\* one grant crosses several levels.
C36_XpConserved ==
    /\ (Called /\ ~ConfirmedReset) =>
          /\ TotalXP(developer) - TotalXP(prev) \in Grants
          /\ developer.level >= prev.level
    /\ developer.level >= 1
    /\ developer.xp >= 0 /\ developer.xp < developer.level * 100
    /\ TotalXP(DefaultDeveloper(T0)) = 0
    /\ calls = 0 => TotalXP(developer) \in {0, TotalXP(Veteran)}

\* one grant that crossed at least two levels
C36_Witness ==
    /\ GrantsXP
    /\ developer.level >= prev.level + 2
    /\ prev.level >= 2
    /\ TotalXP(developer) = TotalXP(prev) + Momentum(GrantStats, RawNum, RawDen)

\* errors fixed: the grant for them, kept across the level-up
C36_FixGrantReached ==
    /\ ret.op = "updateErrorCount"
    /\ TotalXP(developer) > TotalXP(prev)
    /\ developer.level > prev.level

\* ---------------------------------------------------------------------
\* Quest records
\* ---------------------------------------------------------------------
AllQuestsDone(d) ==
    /\ Len(d.quests) > 0
    /\ \A i \in 1..Len(d.quests) : d.quests[i].completed

\* C37: every quest has 0 <= progress <= target and is completed exactly
\* when progress = target, and dailyQuestsCompleted is true exactly when
\* the quest list is non-empty and every quest in it is completed.
C37_QuestRecords ==
    /\ \A i \in 1..Len(developer.quests) :
          LET q == developer.quests[i]
          IN  /\ q.progress >= 0 /\ q.progress <= q.target
              /\ q.completed <=> (q.progress = q.target)
    /\ GetOr(developer, "dailyQuestsCompleted", FALSE)
          <=> AllQuestsDone(developer)

\* the call that completed the last open quest set the flag
C37_Witness ==
    /\ Called /\ ret.op # "updateStats"
    /\ AllQuestsDone(developer) /\ ~AllQuestsDone(prev)
    /\ developer.dailyQuestsCompleted /\ ~prev.dailyQuestsCompleted

\* a quest completed by an amount larger than what was left
C37_ClampReached ==
    \E i \in 1..Len(developer.quests) :
        /\ Len(prev.quests) = Len(developer.quests)
        /\ prev.quests[i].id = developer.quests[i].id
        /\ ret.op = "updateErrorCount"
        /\ developer.quests[i].type = "fix"
        /\ developer.quests[i].completed /\ ~prev.quests[i].completed
        /\ prev.quests[i].progress = 0

\* ---------------------------------------------------------------------
\* First construction
\* ---------------------------------------------------------------------
\* the session began with nothing persisted: nothing but construction has
\* happened and the developer is not the stored veteran
FreshlyConstructed == calls = 0 /\ developer.level # Veteran.level

\* C38: with no persisted state, construction runs a first tick that fires
\* the daily bonus: the first state has streak = 1, coffee = 50 + bonus,
\* lastDailyBonus = the construction time and three quests; the bare
\* default state is never observable.
C38_FirstTickBonus ==
    /\ FreshlyConstructed =>
          /\ developer.streak = 1
          /\ developer.coffee = 50 + 20 + 5
          /\ developer.lastDailyBonus = T0
          /\ developer.lastUpdated = T0
          /\ Len(developer.quests) = 3
          /\ \A i \in 1..3 : developer.quests[i].progress = 0
                             /\ ~developer.quests[i].completed
          /\ AllStats(developer, Full)
          /\ globalState = developer
    /\ calls = 0 =>
          \A pick \in QuestPicks :
              Construct(<<>>, T0, pick, 0).developer # DefaultDeveloper(T0)
    /\ developer.streak >= 1 /\ developer.lastDailyBonus > 0
    /\ Len(developer.quests) = 3

\* the first state of a session that found nothing persisted
C38_Witness ==
    /\ FreshlyConstructed
    /\ developer.streak = 1 /\ developer.coffee = 75
    /\ developer.lastDailyBonus = now
    /\ Len(developer.quests) = 3
    /\ developer.xp = 0 /\ developer.skills = <<>>

\* ---------------------------------------------------------------------
\* Decay under different tick frequencies
\* ---------------------------------------------------------------------
StatLevels == {Full, 3 * Scale}
Furnishings == {<<>>, <<"furn_chair">>, <<"acc_keyboard">>}
Trainings == {<<>>, <<"iron_focus">>}

\* a developer at T0 with no errors reported; a copy of the record is kept
DecayInit ==
    \E e \in StatLevels, mo \in StatLevels, f \in StatLevels,
       inv \in Furnishings, sk \in Trainings, pick \in QuestPicks :
        LET d == [Construct(<<>>, T0, pick, 0).developer EXCEPT
                     !.energy = e, !.motivation = mo, !.focus = f,
                     !.health = e + mo + f, !.inventory = inv, !.skills = sk]
        IN  /\ developer = d
            /\ lastErrorCount = 0
            /\ globalState = d
            /\ now = T0
            /\ ret = Void("constructor", "")
            /\ prev = d
            /\ calls = 0
            /\ host = activate(StartHeads)
            /\ snapshot = getDeveloper([developer |-> d])

DecayNext == Tick

DecaySpec == DecayInit /\ [][DecayNext]_vars

\* one tick from the record copied at T0 straight to the present time
SingleTick ==
    updateStats([developer |-> snapshot.dev, lastErrorCount |-> 0,
                 globalState |-> snapshot.dev],
                now, CHOOSE pick \in QuestPicks : TRUE).developer

\* C39: time decay does not depend on how often the timer fires: with
\* error count 0 and no purchase in between, a tick at t1 followed by a
\* tick at t2 leaves the same energy, motivation and focus as one tick
\* at t2.
C39_TickFrequency ==
    (ret.op = "updateStats" /\ lastErrorCount = 0) =>
        /\ developer.energy = SingleTick.energy
        /\ developer.motivation = SingleTick.motivation
        /\ developer.focus = SingleTick.focus

\* two ticks, an hour and a day apart, each of which lowered the energy
C39_Witness ==
    /\ calls = 2 /\ ret.op = "updateStats"
    /\ ret.arg > 0 /\ now - snapshot.dev.lastUpdated > ret.arg
    /\ developer.energy < prev.energy
    /\ prev.energy < snapshot.dev.energy
    /\ developer.energy = SingleTick.energy

\* the second tick ran into the floor that the first had not reached
C39_FloorReached ==
    /\ calls = 2 /\ ret.op = "updateStats"
    /\ prev.focus > 0 /\ prev.focus < snapshot.dev.focus
    /\ developer.focus = 0

\* ---------------------------------------------------------------------
\* Commits seen through the repository hooks
\* ---------------------------------------------------------------------
CommitStep == calls' = calls + 1 /\ ret'.op = "onGitCommit"

\* the hooked repositories whose HEAD this step moved to a commit other
\* than the one last recorded for them
NewHeads ==
    {repo \in host.hooked :
        /\ host'.HEAD[repo] # host.HEAD[repo]
        /\ host'.HEAD[repo] # Undefined
        /\ host'.HEAD[repo] # host.lastHead[repo]}

\* C40: for each hooked repository onGitCommit is invoked exactly once for
\* each state change whose HEAD commit is defined and differs from the last
\* HEAD commit recorded for that repository; a change that leaves HEAD the
\* same or undefined grants nothing, and the HEAD found at hook time grants
\* nothing.
C40_CommitPerNewHead ==
    [][/\ NewHeads # {} =>
             /\ CommitStep
             /\ developer' = onGitCommit(M).m.developer
             /\ \A repo \in NewHeads : host'.lastHead[repo] = host'.HEAD[repo]
       /\ CommitStep => Cardinality(NewHeads) = 1
       /\ host'.hooked # host.hooked =>
             /\ developer' = developer /\ calls' = calls
             /\ \A repo \in host'.hooked \ host.hooked :
                   host'.lastHead[repo] = host.HEAD[repo]]_vars

\* a commit counted for the repository that was opened after activation
C40_Witness ==
    /\ ret.op = "onGitCommit" /\ calls = 1
    /\ "repoB" \in host.hooked
    /\ host.HEAD["repoB"] = "c2" /\ host.lastHead["repoB"] = "c2"
    /\ host.HEAD["repoA"] = host.lastHead["repoA"]
    /\ TotalXP(developer) > TotalXP(prev)

\* HEAD went undefined: nothing granted, the recorded commit kept
C40_DetachedReached ==
    /\ calls = 0
    /\ host.HEAD["repoA"] = Undefined /\ host.lastHead["repoA"] = "c1"

====
